---- MODULE Spec2Model ----
(***************************************************************************)
(* Model of the shadowharvester coordination substrate:                    *)
(*   - the Challenge Manager event loop   (src/src/challenge_manager.rs)   *)
(*   - the State Worker and its store     (src/src/state_worker.rs,        *)
(*                                         src/src/persistence.rs)         *)
(*   - the detached submission tasks      (run_blocking_submission)        *)
(*   - the retry backoff                  (src/src/backoff.rs)             *)
(*   - the challenge sources and the push server (polling_client.rs,       *)
(*     websocket_server.rs)                                                *)
(*                                                                         *)
(* Threads are processes with a program counter; the mpsc channels are     *)
(* sequences; the sled database is a function from keys to values whose    *)
(* domain is the set of keys present.                                      *)
(*                                                                         *)
(* The sled database is taken to accept every get, insert and remove,      *)
(* except the insert of the pending record in the SubmitSolution handler,  *)
(* whose failure changes the control flow (state_worker.rs:273-276) and is *)
(* an input of that handler.  The mpsc receivers live as long as their     *)
(* threads, so a send fails only after the receiving thread has exited.    *)
(***************************************************************************)
EXTENDS Integers, Sequences, FiniteSets, TLC

VARIABLES
    cli,                  \* Cli: [mode, websocket, mnemonic_starting_index]
    now,                  \* the local clock (Utc::now), in abstract ticks
    db,                   \* Persistence.db: key -> value, DOMAIN = keys present
    manager_rx,           \* mpsc queue of ManagerCommand
    submitter_rx,         \* mpsc queue of SubmitterCommand
    ws_rx,                \* mpsc queue of WebSocketCommand (ws_tx -> solution_rx)
    response_rx,          \* reply channel of the GetState in flight (<<>> = empty)
    current_challenge,    \* manager: Option<ChallengeData> (<<>> = None, <<c>> = Some(c))
    current_stop_signal,  \* manager: Option<Arc<AtomicBool>> as pool id, 0 = None
    mgr,                  \* manager position: [pc, challenge, current_index]
    pools,                \* worker pools ever spawned: Seq of [address, challenge_id, stop, found]
    tasks,                \* submission threads: Seq of [solution, pc, backoff, result]
    accepted,             \* coordinator: (address, challenge_id) pairs it has accepted
    sw_running,           \* State Worker thread is in its command loop
    flushed,              \* the State Worker has called Persistence::close (sled flush)
    http,                 \* history: <<thread, endpoint>> of the HTTP requests made so far
    poller,               \* HTTP poller: [current_challenge_id, polls (history of its polls)]
    ws_client,            \* push server: [connected, received (what the connected client was sent)]
    env,                  \* events the environment may still produce (see Scenarios)
    attempted,            \* history: solutions for which a submission attempt was made
    sweeps,               \* history: one record per sweep the State Worker ran
    last_save,            \* history: key -> value of the manager's latest SaveState
    params,               \* scavenge: [nb_threads, valid] (valid: the nonces whose hash is good)
    workers,              \* scavenge: thread_id -> [nonce_value, pc, hashed, wrapped]
    channel,              \* scavenge: the workers' mpsc channel to the driver
    stop_flag,            \* scavenge: stop_signal, the pool's AtomicBool
    driver,               \* scavenge: [pc, found, should_stop_after_found, pos, reported]
    call                  \* a library function applied to arguments: [fn, args, result]

\* The state of one worker pool seen from inside (src/src/lib.rs) and of a
\* library call; the coordination model above sees a pool as one entry of pools.
lib_vars == <<params, workers, channel, stop_flag, driver, call>>

vars == <<cli, now, db, manager_rx, submitter_rx, ws_rx, response_rx,
          current_challenge, current_stop_signal, mgr, pools, tasks,
          accepted, sw_running, flushed, http, poller, ws_client, env, attempted, sweeps, last_save, lib_vars>>

(***************************************************************************)
(* Bounds of the model.                                                    *)
(***************************************************************************)
MaxChallenge == 2      \* challenge ids 1..MaxChallenge
MaxNonce == 0          \* nonces 0..MaxNonce
MaxPools == 2          \* worker pools spawned in one run
MaxTime == 1           \* clock ticks 0..MaxTime
MaxNewChallenge == 2   \* NewChallenge messages the source forwards
MaxSweeps == 2         \* sweep requests (client connections)
MaxTransient == 1      \* transient submission failures in an ordinary run
MaxOutage == 7         \* transient submission failures in a run with an outage
MaxStartIndex == 0     \* --mnemonic-starting-index 0..MaxStartIndex
MaxQueue == 1          \* commands waiting in manager_rx when a producer adds one

ChallengeIds == 1..MaxChallenge
Nonces == 0..MaxNonce
Modes == {"persistent", "ephemeral", "mnemonic"}

None == 0              \* Option::None of an id-valued Option

(***************************************************************************)
(* Data types.                                                             *)
(***************************************************************************)
\* The submission deadline the coordinator attaches to a challenge.
LatestSubmission(challenge_id) == challenge_id - 1

ChallengeData(challenge_id) ==
    [challenge_id |-> challenge_id, latest_submission |-> LatestSubmission(challenge_id)]

PendingSolution(address, challenge_id, nonce) ==
    [address |-> address, challenge_id |-> challenge_id, nonce |-> nonce]

\* Address derivation (external library).  The persistent key's address is
\* fixed, a mnemonic index has one address, and the k-th ephemeral key
\* generated in a run is fresh.
PersistentAddress == 1
MnemonicAddress(index) == index + 1
EphemeralAddress(k) == k + 1

(***************************************************************************)
(* Sled keys.                                                              *)
(***************************************************************************)
SLED_KEY_MINING_MODE == <<"last_active_key_mode">>
SLED_KEY_LAST_CHALLENGE == <<"last_challenge_id">>
challenge_key(challenge_id) == <<"challenge", challenge_id>>
mnemonic_index_key(challenge_id) == <<"mnemonic_index", challenge_id>>
wallet_key(index) == <<"mnemonic_index_wallet", index>>

get_sled_pending_key(solution) ==
    <<"pending", solution.address, solution.challenge_id, solution.nonce>>

get_sled_receipt_key(address, challenge_id) == <<"receipt", address, challenge_id>>

(***************************************************************************)
(* Persistence (sled wrapper).                                             *)
(***************************************************************************)
Persistence_set(d, key, value) ==
    [k \in (DOMAIN d) \cup {key} |-> IF k = key THEN value ELSE d[k]]

\* Result<Option<String>>: [some |-> FALSE] is Ok(None).
Persistence_get(d, key) ==
    IF key \in DOMAIN d THEN [some |-> TRUE, value |-> d[key]] ELSE [some |-> FALSE]

db_remove(d, key) == [k \in (DOMAIN d) \ {key} |-> d[k]]

\* scan_prefix: the keys under a prefix.
scan_prefix(d, prefix) == {k \in DOMAIN d : k[1] = prefix}

(***************************************************************************)
(* Deadline check and sweep.                                               *)
(***************************************************************************)
\* check_submission_deadline(challenge): Err when the deadline is in the past.
check_submission_deadline(challenge, clock) == ~(challenge.latest_submission < clock)

\* sled iterates keys in byte order: pending:<address>:<challenge_id>:<nonce>.
KeyLess(k1, k2) ==
    \/ k1[2] < k2[2]
    \/ k1[2] = k2[2] /\ k1[3] < k2[3]
    \/ k1[2] = k2[2] /\ k1[3] = k2[3] /\ k1[4] < k2[4]

FirstKey(keys) == CHOOSE k \in keys : \A o \in keys \ {k} : KeyLess(k, o)

\* Step 1 of the sweep: challenge_id -> ChallengeData for every challenge:<id> record.
challenge_data_cache(d) ==
    [c \in {k[2] : k \in scan_prefix(d, "challenge")} |-> d[challenge_key(c)]]

\* Faulty variant of is_expired: no pending entry is taken to be expired.
is_expired_never(cache, solution, clock) == FALSE

\* Step 3: the expiry verdict of one pending entry.
is_expired(cache, solution, clock) ==
    IF solution.challenge_id \in DOMAIN cache
    THEN ~check_submission_deadline(cache[solution.challenge_id], clock)
    ELSE FALSE

\* Faulty variant of sweep_entry: a forwarded entry is taken off the store.
sweep_entry_consume(r, k, cache, clock) ==
    [db |-> db_remove(r.db, k),
     sent |-> IF is_expired(cache, r.db[k], clock) THEN r.sent
              ELSE Append(r.sent, r.db[k])]

\* Steps 3-4 for the pending entry under key k; r = [db, sent] so far.
sweep_entry(r, k, cache, clock) ==
    IF is_expired(cache, r.db[k], clock)
    THEN [db |-> db_remove(r.db, k), sent |-> r.sent]
    ELSE [db |-> r.db, sent |-> Append(r.sent, r.db[k])]

\* Step 2: the loop over the pending entries still to visit.
RECURSIVE sweep_entries(_, _, _, _)
sweep_entries(r, keys, cache, clock) ==
    IF keys = {} THEN r
    ELSE LET k == FirstKey(keys)
         IN  sweep_entries(sweep_entry(r, k, cache, clock), keys \ {k}, cache, clock)

sweep_pending_solutions(d, clock) ==
    sweep_entries([db |-> d, sent |-> <<>>], scan_prefix(d, "pending"),
                  challenge_data_cache(d), clock)

(***************************************************************************)
(* Backoff (5 s min, 300 s max, factor 2).                                 *)
(***************************************************************************)
BackoffMin == 5
BackoffMax == 300
BackoffFactor == 2

Min(a, b) == IF a < b THEN a ELSE b

Backoff_new == [cur |-> BackoffMin, min |-> BackoffMin, max |-> BackoffMax,
                factor |-> BackoffFactor]

\* Faulty variant of Backoff_sleep: the delay does not grow.
Backoff_sleep_no_growth(b) == b

Backoff_sleep(b) == [b EXCEPT !.cur = Min(b.cur * b.factor, b.max)]

\* The seconds slept by Backoff::sleep: self.cur.min(self.max).
Backoff_delay(b) == Min(b.cur, b.max)

Backoff_reset(b) == [b EXCEPT !.cur = b.min]

\* Faulty variant of max_backoff_reached: the loop never gives up.
max_backoff_reached_never(b) == FALSE

\* The give-up test of the retry loop.
max_backoff_reached(b) == b.cur >= b.max

(***************************************************************************)
(* The coordinator's answers to POST /solution.                            *)
(***************************************************************************)
crypto_receipt(solution) ==
    [status |-> "crypto_receipt", address |-> solution.address,
     challenge_id |-> solution.challenge_id, nonce |-> solution.nonce]

solved_marker(solution) ==
    [status |-> "solved_by_network", challenge_id |-> solution.challenge_id,
     address |-> solution.address]

\* What api::submit_solution can return for a solution at this moment;
\* "transient" stands for a 5xx, 408, 429 or network error.
submit_solution(solution, acc, clock, transient) ==
    (IF transient THEN {"transient"} ELSE {}) \cup
    (IF LatestSubmission(solution.challenge_id) < clock
     THEN {"Submission window closed"}
     ELSE IF <<solution.address, solution.challenge_id>> \in acc
          THEN {"Solution already exists"}
          ELSE {"Ok"})

(***************************************************************************)
(* Commands.                                                               *)
(***************************************************************************)
SaveState(key, value) == [type |-> "SaveState", key |-> key, value |-> value]
GetState(key) == [type |-> "GetState", key |-> key]
SubmitSolution(solution) == [type |-> "SubmitSolution", solution |-> solution]
SweepPendingSolutions == [type |-> "SweepPendingSolutions"]
Shutdown == [type |-> "Shutdown"]
NewChallenge(challenge) == [type |-> "NewChallenge", challenge |-> challenge]
SolutionFound(solution) == [type |-> "SolutionFound", solution |-> solution]

(***************************************************************************)
(* State Worker: run_state_worker, one action per command.                 *)
(***************************************************************************)
\* Faulty variant of recv: the newest message is delivered first.
recv_newest(q) == [command |-> q[Len(q)], rest |-> SubSeq(q, 1, Len(q) - 1)]

\* Receiver::recv on a non-empty channel: the oldest message, and what stays.
recv(q) == [command |-> Head(q), rest |-> Tail(q)]

\* while let Ok(command) = submitter_rx.recv(): the next command in queue order.
sw_recv(type) ==
    /\ sw_running
    /\ submitter_rx # <<>>
    /\ recv(submitter_rx).command.type = type

SwSaveState ==
    /\ sw_recv("SaveState")
    /\ db' = Persistence_set(db, recv(submitter_rx).command.key, recv(submitter_rx).command.value)
    /\ submitter_rx' = recv(submitter_rx).rest
    /\ UNCHANGED <<lib_vars, cli, now, manager_rx, ws_rx, response_rx, current_challenge,
                   current_stop_signal, mgr, pools, tasks, accepted, sw_running, flushed, http, poller, ws_client,
                   env, attempted, sweeps, last_save>>

\* Faulty variant of send_reply: the answer is never sent.
send_reply_dropped(q, result) == q

\* response_tx.send(result): the answer is put on the reply channel of the
\* call; the channel is unbounded, so the send does not wait.
send_reply(q, result) == Append(q, result)

SwGetState ==
    /\ sw_recv("GetState")
    /\ response_rx' = send_reply(response_rx,
                                 Persistence_get(db, recv(submitter_rx).command.key))
    /\ submitter_rx' = recv(submitter_rx).rest
    /\ UNCHANGED <<lib_vars, cli, now, db, manager_rx, ws_rx, current_challenge,
                   current_stop_signal, mgr, pools, tasks, accepted, sw_running, flushed, http, poller, ws_client,
                   env, attempted, sweeps, last_save>>

\* spawn_submission_handler: a detached thread at the top of its retry loop.
spawn_submission_handler(ts, solution) ==
    Append(ts, [solution |-> solution, pc |-> "submit", backoff |-> Backoff_new,
                result |-> "running"])

\* Faulty variant of submit_after_pending: hands the solution on whether or
\* not the pending record was written.
submit_after_pending_unchecked(set_ok, websocket, ts, wq, solution) ==
    IF ~websocket
    THEN [tasks |-> spawn_submission_handler(ts, solution), ws_rx |-> wq]
    ELSE [tasks |-> ts, ws_rx |-> Append(wq, solution)]

\* The SubmitSolution arm once the pending record is (or is not) written:
\* what is handed on for submission, as [tasks, ws_rx].
submit_after_pending(set_ok, websocket, ts, wq, solution) ==
    IF ~set_ok THEN [tasks |-> ts, ws_rx |-> wq]
    ELSE IF ~websocket
         THEN [tasks |-> spawn_submission_handler(ts, solution), ws_rx |-> wq]
         ELSE [tasks |-> ts, ws_rx |-> Append(wq, solution)]

SwSubmitSolution ==
    /\ sw_recv("SubmitSolution")
    /\ \E set_ok \in BOOLEAN :
         LET solution == recv(submitter_rx).command.solution
             out == submit_after_pending(set_ok, cli.websocket, tasks, ws_rx, solution)
         IN  /\ db' = IF set_ok
                      THEN Persistence_set(db, get_sled_pending_key(solution), solution)
                      ELSE db
             /\ tasks' = out.tasks
             /\ ws_rx' = out.ws_rx
             /\ attempted' = IF out.ws_rx # ws_rx THEN attempted \cup {solution}
                             ELSE attempted
    /\ submitter_rx' = recv(submitter_rx).rest
    /\ UNCHANGED <<lib_vars, cli, now, manager_rx, response_rx, current_challenge,
                   current_stop_signal, mgr, pools, accepted, sw_running, flushed, http, poller, ws_client,
                   env, sweeps, last_save>>

\* The SweepPendingSolutions arm: the sweep in push-server mode, ignored otherwise.
sweep_command(websocket, d, clock) ==
    IF websocket THEN sweep_pending_solutions(d, clock)
    ELSE [db |-> d, sent |-> <<>>]

Range(seq) == {seq[i] : i \in DOMAIN seq}

SwSweepPendingSolutions ==
    /\ sw_recv("SweepPendingSolutions")
    /\ LET r == sweep_command(cli.websocket, db, now)
       IN  /\ db' = r.db
           /\ ws_rx' = ws_rx \o r.sent
           /\ attempted' = attempted \cup Range(r.sent)
           /\ sweeps' = IF cli.websocket
                         THEN Append(sweeps, [now |-> now, before |-> db,
                                              after |-> r.db, sent |-> r.sent])
                         ELSE sweeps
    /\ submitter_rx' = recv(submitter_rx).rest
    /\ UNCHANGED <<lib_vars, cli, now, manager_rx, response_rx, current_challenge,
                   current_stop_signal, mgr, pools, tasks, accepted, sw_running, flushed, http, poller, ws_client,
                   env, last_save>>

\* Arc::try_unwrap(persistence): Ok only when the State Worker holds the last
\* reference; every submission thread still alive holds a clone of the Arc.
Arc_try_unwrap_ok == \A t \in DOMAIN tasks : tasks[t].pc = "done"

SwShutdown ==
    /\ sw_recv("Shutdown")
    /\ sw_running' = FALSE
    /\ flushed' = Arc_try_unwrap_ok
    /\ submitter_rx' = recv(submitter_rx).rest
    /\ UNCHANGED <<lib_vars, cli, now, db, manager_rx, ws_rx, response_rx, current_challenge,
                   current_stop_signal, mgr, pools, tasks, accepted, http, poller, ws_client,
                   env, attempted, sweeps, last_save>>

(***************************************************************************)
(* Submission task: run_blocking_submission, one action per blocking step. *)
(***************************************************************************)
\* The match on the result of api::submit_solution: the task's next position.
\* A retry sleeps (backoff.sleep) and is back at the top of the loop; the sleep
\* touches nothing but the thread's own backoff.
\* Faulty variant of is_deadline_past: a closed window is not recognised.
is_deadline_past_never(e) == FALSE

\* e.contains(..) on the text of the Err.
is_nonce_consumed(e) == e \in {"Solution already submitted", "Solution already exists"}
is_deadline_past(e) == e = "Submission window closed"

\* Faulty variant of after_submit: a closed window deletes the pending entry.
after_submit_drops_on_deadline(task, response) ==
    IF response = "Ok" THEN [task EXCEPT !.pc = "save_receipt"]
    ELSE IF is_nonce_consumed(response)
    THEN [task EXCEPT !.pc = "save_marker"]
    ELSE IF is_deadline_past(response)
    THEN [task EXCEPT !.pc = "remove_pending", !.result = "PERMANENT_ERROR: Deadline passed"]
    ELSE IF max_backoff_reached(task.backoff)
    THEN [task EXCEPT !.pc = "done", !.result = "Submission failed after max backoff"]
    ELSE [task EXCEPT !.backoff = Backoff_sleep(task.backoff)]

after_submit(task, response) ==
    IF response = "Ok" THEN [task EXCEPT !.pc = "save_receipt"]
    ELSE IF is_nonce_consumed(response)
    THEN [task EXCEPT !.pc = "save_marker"]
    ELSE IF is_deadline_past(response)
    THEN [task EXCEPT !.pc = "done", !.result = "PERMANENT_ERROR: Deadline passed"]
    ELSE IF max_backoff_reached(task.backoff)
    THEN [task EXCEPT !.pc = "done", !.result = "Submission failed after max backoff"]
    ELSE [task EXCEPT !.backoff = Backoff_sleep(task.backoff)]

TaskSubmit(t) ==
    /\ tasks[t].pc = "submit"
    /\ \E response \in submit_solution(tasks[t].solution, accepted, now,
                                        env.transients > 0) :
         /\ tasks' = [tasks EXCEPT ![t] = after_submit(tasks[t], response)]
         /\ env' = IF response = "transient"
                   THEN [env EXCEPT !.transients = env.transients - 1]
                   ELSE env
         /\ accepted' = IF response = "Ok"
                        THEN accepted \cup {<<tasks[t].solution.address,
                                              tasks[t].solution.challenge_id>>}
                        ELSE accepted
    /\ attempted' = attempted \cup {tasks[t].solution}
    /\ http' = http \cup {<<"submission", "submit_solution">>}
    /\ UNCHANGED <<lib_vars, cli, now, db, manager_rx, submitter_rx, ws_rx, response_rx,
                   current_challenge, current_stop_signal, mgr, pools, sw_running, flushed, poller, ws_client,
                   sweeps, last_save>>

\* On success: 1. save the receipt (the pending entry is removed next).
save_receipt(d, solution) ==
    Persistence_set(d, get_sled_receipt_key(solution.address, solution.challenge_id),
                    crypto_receipt(solution))

TaskSaveReceipt(t) ==
    /\ tasks[t].pc = "save_receipt"
    /\ db' = save_receipt(db, tasks[t].solution)
    /\ tasks' = [tasks EXCEPT ![t].pc = "remove_pending", ![t].result = "Ok"]
    /\ UNCHANGED <<lib_vars, cli, now, manager_rx, submitter_rx, ws_rx, response_rx,
                   current_challenge, current_stop_signal, mgr, pools, accepted,
                   sw_running, flushed, http, poller, ws_client, env, attempted, sweeps, last_save>>

\* Solution consumed: set the solved marker (the pending entry is removed next).
save_marker(d, solution) ==
    Persistence_set(d, get_sled_receipt_key(solution.address, solution.challenge_id),
                    solved_marker(solution))

TaskSaveMarker(t) ==
    /\ tasks[t].pc = "save_marker"
    /\ db' = save_marker(db, tasks[t].solution)
    /\ tasks' = [tasks EXCEPT ![t].pc = "remove_pending",
                              ![t].result = "PERMANENT_ERROR: Solution consumed by network"]
    /\ UNCHANGED <<lib_vars, cli, now, manager_rx, submitter_rx, ws_rx, response_rx,
                   current_challenge, current_stop_signal, mgr, pools, accepted,
                   sw_running, flushed, http, poller, ws_client, env, attempted, sweeps, last_save>>

\* Faulty variant of remove_pending: the pending entry is left in the store.
remove_pending_skipped(d, solution) == d

\* 2. Delete from the pending queue, then return.
remove_pending(d, solution) == db_remove(d, get_sled_pending_key(solution))

TaskRemovePending(t) ==
    /\ tasks[t].pc = "remove_pending"
    /\ db' = remove_pending(db, tasks[t].solution)
    /\ tasks' = [tasks EXCEPT ![t].pc = "done"]
    /\ UNCHANGED <<lib_vars, cli, now, manager_rx, submitter_rx, ws_rx, response_rx,
                   current_challenge, current_stop_signal, mgr, pools, accepted,
                   sw_running, flushed, http, poller, ws_client, env, attempted, sweeps, last_save>>

(***************************************************************************)
(* Challenge Manager: run_challenge_manager.                               *)
(***************************************************************************)
is_some(option) == option # <<>>
unwrap(option) == option[1]

\* Faulty variant of stop_current_miner: the flag is left unset.
stop_current_miner_noop(ps, stop_signal) == ps

\* stop_current_miner: take() the signal and store true into it.
stop_current_miner(ps, stop_signal) ==
    IF stop_signal # None
    THEN [ps EXCEPT ![stop_signal].stop = TRUE]
    ELSE ps

\* mining::spawn_miner_workers: a new pool with a fresh, unset stop flag.
spawn_miner_workers(ps, challenge, address) ==
    Append(ps, [address |-> address, challenge_id |-> challenge.challenge_id,
                stop |-> FALSE, found |-> FALSE])

\* Faulty variant of is_duplicate: no challenge is recognised as a repeat.
is_duplicate_never(current, challenge) == FALSE

\* Faulty variant of is_mining: the manager starts a miner on every new challenge.
is_mining_never(current) == FALSE

\* NewChallenge, step 1: the same challenge as the one being processed.
is_duplicate(current, challenge) ==
    is_some(current) /\ unwrap(current).challenge_id = challenge.challenge_id

\* NewChallenge: a miner counts as running once a challenge was accepted.
is_mining(current) == is_some(current)

\* submitter_tx.send(SubmitterCommand::SaveState(key, value)).
send_save(q, key, value) == Append(q, SaveState(key, value))

mgr_recv(type) ==
    /\ mgr.pc = "recv"
    /\ manager_rx # <<>>
    /\ recv(manager_rx).command.type = type

\* start_server before any client has connected.
NoClient == [connected |-> FALSE, received |-> <<>>]

\* The empty String of an id-valued String (String::new(), clear()).
NoId == 0

\* run_polling_client before its first poll: no tracked id and nothing polled.
PollerIdle == [current_challenge_id |-> NoId, polls |-> <<>>]

mgr_idle == [pc |-> "recv", challenge |-> <<>>, current_index |-> 0]

\* api::fetch_statistics called by the manager, unless --websocket is set.
statistics_requests ==
    IF ~cli.websocket THEN {<<"manager", "fetch_statistics">>} ELSE {}

\* start_mining, step 3: the statistics fetch and, when it fails, the
\* registration of the address; both are skipped with --websocket.
registration_requests(stats_ok) ==
    IF ~cli.websocket /\ ~stats_ok
    THEN statistics_requests \cup {<<"manager", "register_address">>}
    ELSE statistics_requests

\* start_mining, step 4: the donation call when a target is configured.
donation_requests ==
    IF cli.donate_to THEN {<<"manager", "donate_to">>} ELSE {}

\* start_mining steps 3-5 once the address is known: registration and donation
\* are HTTP requests made by the manager (h is the history before them) and
\* their failures are warnings; the spawn may fail.  An Err leaves
\* current_stop_signal as it was and ends the cycle with the non-fatal error
\* path, which stops the current miner.
finish_start_mining(challenge, address, stop_signal, ps, h) ==
    \E spawn_ok \in (IF Len(ps) < MaxPools THEN BOOLEAN ELSE {FALSE}), stats_ok \in BOOLEAN :
        /\ http' = h \cup registration_requests(stats_ok) \cup donation_requests
        /\ IF spawn_ok
           THEN /\ pools' = spawn_miner_workers(ps, challenge, address)
                /\ current_stop_signal' = Len(ps) + 1
           ELSE /\ pools' = stop_current_miner(ps, stop_signal)
                /\ current_stop_signal' = None

\* start_mining, step 2, up to its first blocking point.  q is the submitter
\* queue and ps the pools after what the handler did before the call;
\* stop_signal is current_stop_signal at the call.
start_mining(challenge, q, stop_signal, ps, h) ==
    IF cli.mode = "persistent"
    THEN /\ finish_start_mining(challenge, PersistentAddress, stop_signal, ps, h)
         /\ submitter_rx' = q
         /\ mgr' = mgr_idle
    ELSE IF cli.mode = "ephemeral"
    THEN /\ finish_start_mining(challenge, EphemeralAddress(Len(ps) + 1), stop_signal, ps, h)
         /\ submitter_rx' = q
         /\ mgr' = mgr_idle
    ELSE /\ submitter_rx' = Append(q, GetState(mnemonic_index_key(challenge.challenge_id)))
         /\ mgr' = [pc |-> "sm_index", challenge |-> <<challenge>>, current_index |-> 0]
         /\ pools' = ps
         /\ current_stop_signal' = stop_signal
         /\ http' = h

MgrNewChallenge ==
    /\ mgr_recv("NewChallenge")
    /\ manager_rx' = recv(manager_rx).rest
    /\ LET challenge == recv(manager_rx).command.challenge
           q == send_save(send_save(submitter_rx,
                                    challenge_key(challenge.challenge_id), challenge),
                          SLED_KEY_LAST_CHALLENGE, challenge.challenge_id)
       IN  IF is_duplicate(current_challenge, challenge)
           THEN UNCHANGED <<submitter_rx, current_challenge, current_stop_signal,
                            mgr, pools, last_save, http>>
           ELSE /\ current_challenge' = <<challenge>>
                /\ last_save' = Persistence_set(
                       Persistence_set(last_save, challenge_key(challenge.challenge_id),
                                       challenge),
                       SLED_KEY_LAST_CHALLENGE, challenge.challenge_id)
                /\ IF is_mining(current_challenge)
                   THEN /\ submitter_rx' = q
                        /\ UNCHANGED <<current_stop_signal, mgr, pools, http>>
                   ELSE start_mining(challenge, q, current_stop_signal, pools, http)
    /\ UNCHANGED <<lib_vars, cli, now, db, ws_rx, response_rx, tasks, accepted, sw_running, flushed, poller, ws_client,
                   env, attempted, sweeps>>

\* The mnemonic cursor read by start_mining has been answered.
MgrStartMiningIndex ==
    /\ mgr.pc = "sm_index"
    /\ response_rx # <<>>
    /\ LET reply == Head(response_rx)
           challenge == unwrap(mgr.challenge)
           deriv_index == IF reply.some THEN reply.value
                          ELSE cli.mnemonic_starting_index
       IN  /\ submitter_rx' = Append(submitter_rx,
                 GetState(get_sled_receipt_key(MnemonicAddress(deriv_index),
                                               challenge.challenge_id)))
           /\ mgr' = [mgr EXCEPT !.pc = "sm_receipt", !.current_index = deriv_index]
    /\ response_rx' = Tail(response_rx)
    /\ UNCHANGED <<lib_vars, cli, now, db, manager_rx, ws_rx, current_challenge,
                   current_stop_signal, pools, tasks, accepted, sw_running, flushed, http, poller, ws_client,
                   env, attempted, sweeps, last_save>>

\* Faulty variant of skip_solved_index: the loop moves on by two.
skip_solved_index_by_two(current_index) == current_index + 2

\* The skip loop's move past a solved index: current_index.wrapping_add(1),
\* far from the end of u32.
skip_solved_index(current_index) == current_index + 1

\* One turn of the skip loop: sync_check_receipt_exists has been answered.
MgrStartMiningReceipt ==
    /\ mgr.pc = "sm_receipt"
    /\ response_rx # <<>>
    /\ response_rx' = Tail(response_rx)
    /\ LET challenge == unwrap(mgr.challenge)
           index_key == mnemonic_index_key(challenge.challenge_id)
       IN  IF Head(response_rx).some
           THEN /\ submitter_rx' = Append(submitter_rx,
                      GetState(get_sled_receipt_key(
                          MnemonicAddress(skip_solved_index(mgr.current_index)),
                          challenge.challenge_id)))
                /\ mgr' = [mgr EXCEPT !.current_index =
                                          skip_solved_index(mgr.current_index)]
                /\ UNCHANGED <<pools, current_stop_signal, last_save, http>>
           ELSE /\ submitter_rx' =
                      send_save(send_save(submitter_rx, index_key, mgr.current_index),
                                wallet_key(mgr.current_index),
                                MnemonicAddress(mgr.current_index))
                /\ last_save' = Persistence_set(
                       Persistence_set(last_save, index_key, mgr.current_index),
                       wallet_key(mgr.current_index), MnemonicAddress(mgr.current_index))
                /\ finish_start_mining(challenge, MnemonicAddress(mgr.current_index),
                                       current_stop_signal, pools, http)
                /\ mgr' = mgr_idle
    /\ UNCHANGED <<lib_vars, cli, now, db, manager_rx, ws_rx, current_challenge, tasks,
                   accepted, sw_running, flushed, poller, ws_client, env, attempted, sweeps>>

MgrSolutionFound ==
    /\ mgr_recv("SolutionFound")
    /\ manager_rx' = recv(manager_rx).rest
    /\ LET solution == recv(manager_rx).command.solution
           ps == stop_current_miner(pools, current_stop_signal)
           q == Append(submitter_rx, SubmitSolution(solution))
           h == http \cup statistics_requests
       IN  IF cli.mode = "mnemonic"
           THEN /\ pools' = ps
                /\ current_stop_signal' = None
                /\ http' = h
                /\ IF is_some(current_challenge)
                   THEN /\ submitter_rx' = Append(q, GetState(
                               mnemonic_index_key(unwrap(current_challenge).challenge_id)))
                        /\ mgr' = [mgr EXCEPT !.pc = "sf_index"]
                   ELSE /\ submitter_rx' = q
                        /\ mgr' = mgr_idle
           ELSE IF is_some(current_challenge)
                THEN start_mining(unwrap(current_challenge), q, None, ps, h)
                ELSE /\ submitter_rx' = q
                     /\ http' = h
                     /\ pools' = ps
                     /\ current_stop_signal' = None
                     /\ mgr' = [mgr EXCEPT !.pc = "exited"]
    /\ UNCHANGED <<lib_vars, cli, now, db, ws_rx, response_rx, current_challenge, tasks,
                   accepted, sw_running, flushed, poller, ws_client, env, attempted, sweeps, last_save>>

\* SolutionFound, step 4: the cursor read has been answered; advance and restart.
MgrSolutionFoundIndex ==
    /\ mgr.pc = "sf_index"
    /\ response_rx # <<>>
    /\ response_rx' = Tail(response_rx)
    /\ LET reply == Head(response_rx)
           challenge == unwrap(current_challenge)
           index_key == mnemonic_index_key(challenge.challenge_id)
           q == IF reply.some
                THEN send_save(submitter_rx, index_key, reply.value + 1)
                ELSE submitter_rx
       IN  /\ last_save' = IF reply.some
                           THEN Persistence_set(last_save, index_key, reply.value + 1)
                           ELSE last_save
           /\ start_mining(challenge, q, current_stop_signal, pools, http)
    /\ UNCHANGED <<lib_vars, cli, now, db, manager_rx, ws_rx, current_challenge, tasks,
                   accepted, sw_running, flushed, poller, ws_client, env, attempted, sweeps>>

MgrShutdown ==
    /\ mgr_recv("Shutdown")
    /\ manager_rx' = recv(manager_rx).rest
    /\ pools' = stop_current_miner(pools, current_stop_signal)
    /\ current_stop_signal' = None
    /\ submitter_rx' = Append(submitter_rx, Shutdown)
    /\ mgr' = [mgr EXCEPT !.pc = "exited"]
    /\ UNCHANGED <<lib_vars, cli, now, db, ws_rx, response_rx, current_challenge, tasks,
                   accepted, sw_running, flushed, http, poller, ws_client, env, attempted, sweeps, last_save>>

\* A sweep request is passed on to the State Worker.
MgrSweepPendingSolutions ==
    /\ mgr_recv("SweepPendingSolutions")
    /\ manager_rx' = recv(manager_rx).rest
    /\ submitter_rx' = Append(submitter_rx, SweepPendingSolutions)
    /\ UNCHANGED <<lib_vars, cli, now, db, ws_rx, response_rx, current_challenge,
                   current_stop_signal, mgr, pools, tasks, accepted, sw_running, flushed, http, poller, ws_client,
                   env, attempted, sweeps, last_save>>

(***************************************************************************)
(* Worker pools, challenge sources, push server, clock.                    *)
(***************************************************************************)
\* A worker of pool p finds a valid nonce: the driver sets the pool's stop flag
\* and reports the solution to the manager.  A worker tests the stop flag only
\* between two hashes, so a pool stopped from outside can still report.
PoolFound(p, nonce) ==
    /\ ~pools[p].found
    /\ Len(manager_rx) < MaxQueue
    /\ pools' = [pools EXCEPT ![p].found = TRUE, ![p].stop = TRUE]
    /\ manager_rx' = Append(manager_rx, SolutionFound(
           PendingSolution(pools[p].address, pools[p].challenge_id, nonce)))
    /\ UNCHANGED <<lib_vars, cli, now, db, submitter_rx, ws_rx, response_rx, current_challenge,
                   current_stop_signal, mgr, tasks, accepted, sw_running, flushed, http, poller, ws_client,
                   env, attempted, sweeps, last_save>>

\* The poller or the push server forwards an active challenge.
SourceNewChallenge(challenge_id) ==
    /\ env.new_challenges > 0
    /\ Len(manager_rx) < MaxQueue
    /\ env' = [env EXCEPT !.new_challenges = env.new_challenges - 1]
    /\ manager_rx' = Append(manager_rx, NewChallenge(ChallengeData(challenge_id)))
    /\ UNCHANGED <<lib_vars, cli, now, db, submitter_rx, ws_rx, response_rx, current_challenge,
                   current_stop_signal, mgr, pools, tasks, accepted, sw_running, flushed, http, poller, ws_client,
                   attempted, sweeps, last_save>>

\* A sweep is requested (the push server does so when a client connects).
RequestSweep ==
    /\ env.sweeps > 0
    /\ Len(manager_rx) < MaxQueue
    /\ env' = [env EXCEPT !.sweeps = env.sweeps - 1]
    /\ manager_rx' = Append(manager_rx, SweepPendingSolutions)
    /\ UNCHANGED <<lib_vars, cli, now, db, submitter_rx, ws_rx, response_rx, current_challenge,
                   current_stop_signal, mgr, pools, tasks, accepted, sw_running, flushed, http, poller, ws_client,
                   attempted, sweeps, last_save>>

\* The push server takes the next outbound solution off its channel.
WsServerRecv ==
    /\ ws_rx # <<>>
    /\ ws_rx' = Tail(ws_rx)
    /\ UNCHANGED <<lib_vars, cli, now, db, manager_rx, submitter_rx, response_rx,
                   current_challenge, current_stop_signal, mgr, pools, tasks,
                   accepted, sw_running, flushed, http, poller, ws_client, env, attempted, sweeps, last_save>>

\* The supervisor asks the manager to shut down.
RequestShutdown ==
    /\ env.shutdowns > 0
    /\ Len(manager_rx) < MaxQueue
    /\ env' = [env EXCEPT !.shutdowns = env.shutdowns - 1]
    /\ manager_rx' = Append(manager_rx, Shutdown)
    /\ UNCHANGED <<lib_vars, cli, now, db, submitter_rx, ws_rx, response_rx, current_challenge,
                   current_stop_signal, mgr, pools, tasks, accepted, sw_running, flushed, http, poller, ws_client,
                   attempted, sweeps, last_save>>

Tick ==
    /\ now < MaxTime
    /\ now' = now + 1
    /\ UNCHANGED <<lib_vars, cli, db, manager_rx, submitter_rx, ws_rx, response_rx,
                   current_challenge, current_stop_signal, mgr, pools, tasks,
                   accepted, sw_running, flushed, http, poller, ws_client, env, attempted, sweeps, last_save>>

(***************************************************************************)
(* Initial states: a (re)start of the process on a store left by earlier   *)
(* runs, after the manager's start-up code has sent the mining mode.       *)
(***************************************************************************)
\* A store as an earlier run left it: its pending records, and the challenge
\* records among challenge:<id> that it holds.
StoreImage(pending, challenge_ids, receipts) ==
    LET keys == {get_sled_pending_key(s) : s \in pending}
                \cup {challenge_key(c) : c \in challenge_ids}
                \cup {get_sled_receipt_key(s.address, s.challenge_id) : s \in receipts}
    IN  [k \in keys |-> IF k[1] = "pending"
                        THEN PendingSolution(k[2], k[3], k[4])
                        ELSE IF k[1] = "challenge"
                        THEN ChallengeData(k[2])
                        ELSE crypto_receipt(PendingSolution(k[2], k[3], 0))]

\* The stores a run starts on: an empty one (first start); one an
\* interrupted run left with a pending solution for every challenge, of which
\* only the first challenge's record is still there; and one a run left
\* after its solution for the first challenge was accepted.
StoreImages ==
    {StoreImage({}, {}, {}),
     StoreImage({PendingSolution(PersistentAddress, c, 0) : c \in ChallengeIds}, {1}, {}),
     StoreImage({}, {1}, {PendingSolution(PersistentAddress, 1, 0)})}

\* What the environment does in one run, as the numbers of events it may
\* produce: an ordinary run (challenges, sweep requests, a flaky request), a
\* run that is shut down, and a run through a network outage.
Scenarios(websocket) ==
    {[new_challenges |-> MaxNewChallenge,
      sweeps |-> IF websocket THEN MaxSweeps ELSE 1,
      shutdowns |-> 0, transients |-> MaxTransient],
     [new_challenges |-> 1, sweeps |-> 0, shutdowns |-> 1, transients |-> 0]}
    \cup (IF websocket THEN {}
          ELSE {[new_challenges |-> 1, sweeps |-> 0, shutdowns |-> 0,
                 transients |-> MaxOutage]})

\* No pool is looked into and no library call is made.
NoCall == [fn |-> "none", args |-> <<>>, result |-> <<>>]

PoolIdle ==
    /\ params = [nb_threads |-> 0, valid |-> {}]
    /\ workers = <<>>
    /\ channel = <<>>
    /\ stop_flag = FALSE
    /\ driver = [pc |-> "none", found |-> <<>>, should_stop_after_found |-> FALSE,
                 pos |-> 0, reported |-> 0]

LibIdle ==
    /\ PoolIdle
    /\ call = NoCall

\* The start-up states with the donation target (--donate-to) configured or not.
Startup(donate_to) ==
    /\ cli \in {c \in [mode : Modes, websocket : BOOLEAN, donate_to : donate_to,
                       mnemonic_starting_index : 0..MaxStartIndex] :
                  c.mode # "mnemonic" => c.mnemonic_starting_index = 0}
    /\ now = 0
    /\ db \in StoreImages
    /\ manager_rx = <<>>
    /\ submitter_rx = <<SaveState(SLED_KEY_MINING_MODE, cli.mode)>>
    /\ ws_rx = <<>>
    /\ response_rx = <<>>
    /\ current_challenge = <<>>
    /\ current_stop_signal = None
    /\ mgr = mgr_idle
    /\ pools = <<>>
    /\ tasks = <<>>
    /\ accepted = {}
    /\ sw_running = TRUE
    /\ flushed = FALSE
    /\ http = {}
    /\ poller = PollerIdle
    /\ ws_client = NoClient
    /\ env \in Scenarios(cli.websocket)
    /\ attempted = {}
    /\ sweeps = <<>>
    /\ last_save = Persistence_set(<<>>, SLED_KEY_MINING_MODE, cli.mode)
    /\ LibIdle

\* A run without a donation target.
Init == Startup({FALSE})

Next ==
    \/ SwSaveState
    \/ SwGetState
    \/ SwSubmitSolution
    \/ SwSweepPendingSolutions
    \/ SwShutdown
    \/ \E t \in DOMAIN tasks : TaskSubmit(t)
    \/ \E t \in DOMAIN tasks : TaskSaveReceipt(t)
    \/ \E t \in DOMAIN tasks : TaskSaveMarker(t)
    \/ \E t \in DOMAIN tasks : TaskRemovePending(t)
    \/ MgrNewChallenge
    \/ MgrStartMiningIndex
    \/ MgrStartMiningReceipt
    \/ MgrSolutionFound
    \/ MgrSolutionFoundIndex
    \/ MgrShutdown
    \/ MgrSweepPendingSolutions
    \/ \E p \in DOMAIN pools, nonce \in Nonces : PoolFound(p, nonce)
    \/ \E challenge_id \in ChallengeIds : SourceNewChallenge(challenge_id)
    \/ RequestSweep
    \/ WsServerRecv
    \/ RequestShutdown
    \/ Tick

Spec == Init /\ [][Next]_vars

(***************************************************************************)
(* Restart on a store with pending solutions, with a persistent key, under *)
(* fair scheduling: every thread of the process that can take a step       *)
(* eventually takes one, and a sweep that can be requested is requested.   *)
(* The run is not shut down, so the threads are those below.               *)
(***************************************************************************)
RestartPending == {PendingSolution(PersistentAddress, c, 0) : c \in ChallengeIds}

InitRestart ==
    /\ Init
    /\ cli.mode = "persistent"
    /\ RestartPending \subseteq {db[k] : k \in scan_prefix(db, "pending")}
    /\ env.shutdowns = 0
    /\ env.transients = MaxTransient

StateWorkerStep ==
    \/ SwSaveState
    \/ SwSubmitSolution
    \/ SwSweepPendingSolutions

TaskStep(t) ==
    /\ t \in DOMAIN tasks
    /\ \/ TaskSubmit(t)
       \/ TaskSaveReceipt(t)
       \/ TaskSaveMarker(t)
       \/ TaskRemovePending(t)

ManagerStep ==
    \/ MgrNewChallenge
    \/ MgrSolutionFound
    \/ MgrSweepPendingSolutions

NextRestart ==
    \/ StateWorkerStep
    \/ \E t \in 1..MaxPools : TaskStep(t)
    \/ ManagerStep
    \/ WsServerRecv
    \/ \E p \in DOMAIN pools, nonce \in Nonces : PoolFound(p, nonce)
    \/ \E challenge_id \in ChallengeIds : SourceNewChallenge(challenge_id)
    \/ RequestSweep
    \/ Tick

SpecRestart ==
    /\ InitRestart
    /\ [][NextRestart]_vars
    /\ WF_vars(StateWorkerStep)
    /\ WF_vars(ManagerStep)
    /\ \A t \in 1..MaxPools : WF_vars(TaskStep(t))
    /\ WF_vars(WsServerRecv)
    /\ WF_vars(RequestSweep)

(***************************************************************************)
(* One worker pool from the inside: scavenge and spin (src/src/lib.rs).    *)
(* The hash of a nonce is good exactly for the nonces of params.valid.     *)
(***************************************************************************)
NonceBits == 2         \* width of a nonce in bits (64 in the code)
MaxThreads == 3        \* nb_threads 1..MaxThreads
MaxHashes == 3         \* hashes one worker computes in a run

CHUNKS_SIZE == 255

NonceModulus == 2 ^ NonceBits
NonceValues == 0..(NonceModulus - 1)

\* u64::wrapping_add at the model's width.
wrapping_add(a, b) == (a + b) % NonceModulus

\* The coordination threads are left aside.
MainIdle ==
    /\ cli = [mode |-> "persistent", websocket |-> FALSE, donate_to |-> FALSE,
             mnemonic_starting_index |-> 0]
    /\ now = 0
    /\ db = <<>>
    /\ manager_rx = <<>>
    /\ submitter_rx = <<>>
    /\ ws_rx = <<>>
    /\ response_rx = <<>>
    /\ current_challenge = <<>>
    /\ current_stop_signal = None
    /\ mgr = mgr_idle
    /\ pools = <<>>
    /\ tasks = <<>>
    /\ accepted = {}
    /\ sw_running = TRUE
    /\ flushed = FALSE
    /\ http = {}
    /\ poller = PollerIdle
    /\ ws_client = NoClient
    /\ env = [new_challenges |-> 0, sweeps |-> 0, shutdowns |-> 0, transients |-> 0]
    /\ attempted = {}
    /\ sweeps = <<>>
    /\ last_save = <<>>

main_vars == <<cli, now, db, manager_rx, submitter_rx, ws_rx, response_rx,
               current_challenge, current_stop_signal, mgr, pools, tasks,
               accepted, sw_running, flushed, http, poller, ws_client, env, attempted, sweeps, last_save>>

\* Faulty variant of start_nonce: every worker starts at nonce 0.
start_nonce_shared(thread_id) == 0

\* scavenge: let start_nonce = thread_id.
start_nonce(thread_id) == thread_id

\* Faulty variant of step_size: every worker steps by one.
step_size_one(nb_threads) == 1

\* scavenge: let step_size = nb_threads_u64.
step_size(nb_threads) == nb_threads

ThreadIds == 0..(params.nb_threads - 1)

\* hash_structure_good(hash(preimage of nonce), required_zero_bits).
is_valid(nonce) == nonce \in params.valid

Found(nonce) == [type |-> "Found", nonce |-> nonce]
Progress(sz) == [type |-> "Progress", sz |-> sz]

\* nonce_value & (CHUNKS_SIZE as u64) == 0, CHUNKS_SIZE being 2^8 - 1.
chunk_start(nonce) == nonce % (CHUNKS_SIZE + 1) = 0

\* One turn of the loop of spin: test the stop flag, hash the nonce, report a
\* good hash and return, or move on to the next nonce.
WorkerStep(t) ==
    /\ workers[t].pc = "spin"
    /\ IF stop_flag
       THEN /\ workers' = [workers EXCEPT ![t].pc = "returned"]
            /\ UNCHANGED channel
       ELSE /\ Len(workers[t].hashed) < MaxHashes
            /\ LET nonce_value == workers[t].nonce_value
                   hashed == Append(workers[t].hashed, nonce_value)
                   step == step_size(params.nb_threads)
               IN  IF is_valid(nonce_value)
                   THEN /\ channel' = Append(channel, Found(nonce_value))
                        /\ workers' = [workers EXCEPT ![t].pc = "returned",
                                                      ![t].hashed = hashed]
                   ELSE /\ channel' = IF chunk_start(nonce_value)
                                      THEN Append(channel, Progress(CHUNKS_SIZE))
                                      ELSE channel
                        /\ workers' = [workers EXCEPT
                              ![t].hashed = hashed,
                              ![t].nonce_value = wrapping_add(nonce_value, step),
                              ![t].wrapped = workers[t].wrapped
                                             \/ nonce_value + step >= NonceModulus]
    /\ UNCHANGED <<main_vars, params, stop_flag, driver, call>>

\* The pool's report to the manager: one SolutionFound, on the first Found.
report_solution(found) == IF found = <<>> THEN 1 ELSE 0

\* Faulty variant of driver_found: the stop flag is left as it is.
driver_found_no_stop(d, stop, nonce) ==
    [driver |-> [d EXCEPT !.found = Append(d.found, nonce),
                          !.should_stop_after_found = TRUE,
                          !.reported = d.reported + report_solution(d.found)],
     stop_flag |-> stop]

\* The driver's Result::Found arm: record the nonce and signal the workers to stop.
driver_found(d, stop, nonce) ==
    [driver |-> [d EXCEPT !.found = Append(d.found, nonce),
                          !.should_stop_after_found = TRUE,
                          !.reported = d.reported + report_solution(d.found)],
     stop_flag |-> TRUE]

\* The driver's Result::Progress arm.
driver_progress(d, sz) ==
    IF d.should_stop_after_found THEN d ELSE [d EXCEPT !.pos = d.pos + sz]

\* while let Ok(r) = receiver.recv(): one message.
DriverRecv ==
    /\ driver.pc = "recv"
    /\ channel # <<>>
    /\ channel' = Tail(channel)
    /\ LET r == Head(channel)
       IN  IF r.type = "Found"
           THEN /\ driver' = driver_found(driver, stop_flag, r.nonce).driver
                /\ stop_flag' = driver_found(driver, stop_flag, r.nonce).stop_flag
           ELSE /\ driver' = driver_progress(driver, r.sz)
                /\ UNCHANGED stop_flag
    /\ UNCHANGED <<main_vars, params, workers, call>>

\* recv returns Err once every worker has returned (all senders dropped) and
\* the channel is drained.
DriverExit ==
    /\ driver.pc = "recv"
    /\ channel = <<>>
    /\ \A t \in ThreadIds : workers[t].pc = "returned"
    /\ driver' = [driver EXCEPT !.pc = "done"]
    /\ UNCHANGED <<main_vars, params, workers, channel, stop_flag, call>>

\* The manager stops the pool (stop_current_miner on the pool's flag).
ExternalStop ==
    /\ ~stop_flag
    /\ driver.pc = "recv"
    /\ stop_flag' = TRUE
    /\ UNCHANGED <<main_vars, params, workers, channel, driver, call>>

InitScavenge ==
    /\ MainIdle
    /\ params \in [nb_threads : 1..MaxThreads, valid : SUBSET NonceValues]
    /\ workers = [t \in ThreadIds |->
                    [nonce_value |-> start_nonce(t), pc |-> "spin",
                     hashed |-> <<>>, wrapped |-> FALSE]]
    /\ channel = <<>>
    /\ stop_flag = FALSE
    /\ driver = [pc |-> "recv", found |-> <<>>, should_stop_after_found |-> FALSE,
                 pos |-> 0, reported |-> 0]
    /\ call = NoCall

NextScavenge ==
    \/ \E t \in ThreadIds : WorkerStep(t)
    \/ DriverRecv
    \/ DriverExit
    \/ ExternalStop

SpecScavenge == InitScavenge /\ [][NextScavenge]_vars

(***************************************************************************)
(* Restart on a store that an earlier mnemonic run left, in mnemonic mode   *)
(* or, the mode having been changed, with a persistent key.                *)
(***************************************************************************)
\* The earlier run was interrupted after it had found a solution at the
\* starting index for challenge 1 and advanced the cursor, with the solution
\* still pending; or after that solution's receipt was saved, with or without
\* the cursor.
ResumeImages ==
    LET first == PendingSolution(MnemonicAddress(0), 1, 0)
    IN  {Persistence_set(StoreImage({first}, {1}, {}), mnemonic_index_key(1), 1),
         Persistence_set(StoreImage({}, {1}, {first}), mnemonic_index_key(1), 1),
         StoreImage({}, {1}, {first})}

InitResume ==
    /\ cli \in [mode : {"mnemonic", "persistent"}, websocket : BOOLEAN, donate_to : {FALSE},
                mnemonic_starting_index : {0}]
    /\ now = 0
    /\ db \in ResumeImages
    /\ manager_rx = <<>>
    /\ submitter_rx = <<SaveState(SLED_KEY_MINING_MODE, cli.mode)>>
    /\ ws_rx = <<>>
    /\ response_rx = <<>>
    /\ current_challenge = <<>>
    /\ current_stop_signal = None
    /\ mgr = mgr_idle
    /\ pools = <<>>
    /\ tasks = <<>>
    /\ accepted = {}
    /\ sw_running = TRUE
    /\ flushed = FALSE
    /\ http = {}
    /\ poller = PollerIdle
    /\ ws_client = NoClient
    /\ env \in Scenarios(cli.websocket)
    /\ attempted = {}
    /\ sweeps = <<>>
    /\ last_save = Persistence_set(<<>>, SLED_KEY_MINING_MODE, cli.mode)
    /\ LibIdle

SpecResume == InitResume /\ [][Next]_vars

(***************************************************************************)
(* A pool and its successor: in persistent mode the manager answers a      *)
(* SolutionFound by starting a new pool for the same challenge and the     *)
(* same address.  pools keeps the pools that have ended, with the nonces   *)
(* they hashed and found.                                                  *)
(***************************************************************************)
EndedPool ==
    [address |-> PersistentAddress, challenge_id |-> 1, stop |-> stop_flag,
     found |-> driver.found # <<>>, nonces |-> driver.found,
     hashed |-> UNION {{workers[t].hashed[i] : i \in DOMAIN workers[t].hashed}
                       : t \in ThreadIds}]

\* SolutionFound on a persistent address: start_mining(current_challenge)
\* spawns a pool with the same challenge parameters, address and thread count.
Respawn ==
    /\ driver.pc = "done"
    /\ driver.reported = 1
    /\ Len(pools) + 1 < MaxPools
    /\ pools' = Append(pools, EndedPool)
    /\ workers' = [t \in ThreadIds |->
                     [nonce_value |-> start_nonce(t), pc |-> "spin",
                      hashed |-> <<>>, wrapped |-> FALSE]]
    /\ channel' = <<>>
    /\ stop_flag' = FALSE
    /\ driver' = [pc |-> "recv", found |-> <<>>, should_stop_after_found |-> FALSE,
                  pos |-> 0, reported |-> 0]
    /\ UNCHANGED <<cli, now, db, manager_rx, submitter_rx, ws_rx, response_rx,
                   current_challenge, current_stop_signal, mgr, tasks, accepted,
                   sw_running, flushed, http, poller, ws_client, env, attempted, sweeps, last_save, params, call>>

NextRespawn ==
    \/ \E t \in ThreadIds : WorkerStep(t)
    \/ DriverRecv
    \/ DriverExit
    \/ ExternalStop
    \/ Respawn

SpecRespawn == InitScavenge /\ [][NextRespawn]_vars

(***************************************************************************)
(* Submission threads against a coordinator that may give any answer.      *)
(* call keeps the latest api::submit_solution call (the thread and the     *)
(* answer), attempted keeps <<solution, k>> for the k-th attempt made for  *)
(* a solution.                                                             *)
(***************************************************************************)
\* What api::submit_solution returns: Ok, or an Err whose text carries the
\* coordinator's message or the status, or a network error.
Responses ==
    {"Ok", "Solution already submitted", "Solution already exists",
     "Submission window closed", "Status 400", "Status 404", "Status 408",
     "Status 429", "Status 500", "Network/Client Error"}

attempts_of(solution) == Cardinality({a \in attempted : a[1] = solution})

\* One turn of the retry loop with its match on the result.
TaskAttempt(t) ==
    /\ tasks[t].pc = "submit"
    /\ \E response \in Responses :
         /\ tasks' = [tasks EXCEPT ![t] = after_submit(tasks[t], response)]
         /\ call' = [fn |-> "submit_solution", args |-> <<t>>, result |-> <<response>>]
         /\ accepted' = IF response = "Ok"
                        THEN accepted \cup {<<tasks[t].solution.address,
                                              tasks[t].solution.challenge_id>>}
                        ELSE accepted
    /\ attempted' = attempted \cup
                        {<<tasks[t].solution, attempts_of(tasks[t].solution) + 1>>}
    /\ http' = http \cup {<<"submission", "submit_solution">>}
    /\ UNCHANGED <<cli, now, db, manager_rx, submitter_rx, ws_rx, response_rx,
                   current_challenge, current_stop_signal, mgr, pools, sw_running, flushed, poller, ws_client,
                   env, sweeps, last_save, params, workers, channel, stop_flag,
                   driver>>

\* The State Worker has written the pending records and spawned a thread for
\* each of them.
InitSubmission ==
    /\ cli = [mode |-> "persistent", websocket |-> FALSE, donate_to |-> FALSE,
             mnemonic_starting_index |-> 0]
    /\ now = 0
    /\ \E n \in 1..Min(MaxPools, MaxChallenge) :
          LET solution(i) == PendingSolution(PersistentAddress, i, 0)
          IN  /\ tasks = [i \in 1..n |-> spawn_submission_handler(<<>>, solution(i))[1]]
              /\ db = [k \in {get_sled_pending_key(solution(i)) : i \in 1..n} |->
                         PendingSolution(k[2], k[3], k[4])]
    /\ manager_rx = <<>>
    /\ submitter_rx = <<>>
    /\ ws_rx = <<>>
    /\ response_rx = <<>>
    /\ current_challenge = <<>>
    /\ current_stop_signal = None
    /\ mgr = mgr_idle
    /\ pools = <<>>
    /\ accepted = {}
    /\ sw_running = TRUE
    /\ flushed = FALSE
    /\ http = {}
    /\ poller = PollerIdle
    /\ ws_client = NoClient
    /\ env = [new_challenges |-> 0, sweeps |-> 0, shutdowns |-> 0, transients |-> 0]
    /\ attempted = {}
    /\ sweeps = <<>>
    /\ last_save = <<>>
    /\ LibIdle

NextSubmission ==
    \E t \in DOMAIN tasks :
        \/ TaskAttempt(t)
        \/ TaskSaveReceipt(t)
        \/ TaskSaveMarker(t)
        \/ TaskRemovePending(t)

SpecSubmission == InitSubmission /\ [][NextSubmission]_vars

(***************************************************************************)
(* A Backoff as run_blocking_submission creates it, slept on and reset in  *)
(* any order.  call keeps the object and what it has done so far: the      *)
(* sleeps with their seconds, and the resets.                              *)
(***************************************************************************)
MaxSleeps == 10

BackoffSleep ==
    /\ call.fn = "Backoff"
    /\ Len(call.result) < MaxSleeps
    /\ call' = [call EXCEPT !.args = <<Backoff_sleep(call.args[1])>>,
                            !.result = Append(call.result,
                                [op |-> "sleep", secs |-> Backoff_delay(call.args[1])])]
    /\ UNCHANGED <<main_vars, params, workers, channel, stop_flag, driver>>

BackoffReset ==
    /\ call.fn = "Backoff"
    /\ Len(call.result) < MaxSleeps
    /\ call' = [call EXCEPT !.args = <<Backoff_reset(call.args[1])>>,
                            !.result = Append(call.result, [op |-> "reset", secs |-> 0])]
    /\ UNCHANGED <<main_vars, params, workers, channel, stop_flag, driver>>

InitBackoff ==
    /\ MainIdle
    /\ PoolIdle
    /\ call = [fn |-> "Backoff", args |-> <<Backoff_new>>, result |-> <<>>]

NextBackoff == BackoffSleep \/ BackoffReset

SpecBackoff == InitBackoff /\ [][NextBackoff]_vars

(***************************************************************************)
(* build_preimage (src/src/lib.rs).  A string is a sequence of characters. *)
(***************************************************************************)
NONCE_HEX_WIDTH == 16

HexChars == <<"0", "1", "2", "3", "4", "5", "6", "7",
              "8", "9", "a", "b", "c", "d", "e", "f">>

\* {:x}: the lowercase hexadecimal digits of n, most significant first.
RECURSIVE lower_hex(_)
lower_hex(n) ==
    IF n < 16 THEN <<HexChars[n + 1]>>
    ELSE Append(lower_hex(n \div 16), HexChars[(n % 16) + 1])

\* Padding with '0' on the left up to a width; a longer string is left whole.
RECURSIVE zero_pad(_, _)
zero_pad(str, width) ==
    IF Len(str) >= width THEN str ELSE zero_pad(<<"0">> \o str, width)

\* Faulty variant of format_nonce: the digits without the zero padding.
format_nonce_unpadded(nonce) == lower_hex(nonce)

\* format!("{:016x}", nonce).
format_nonce(nonce) == zero_pad(lower_hex(nonce), NONCE_HEX_WIDTH)

build_preimage(nonce, address, challenge_id, difficulty, no_pre_mine, latest_submission, no_pre_mine_hour) ==
    format_nonce(nonce) \o address \o challenge_id \o difficulty \o no_pre_mine
        \o latest_submission \o no_pre_mine_hour

\* The arguments tried: nonces around the digit boundaries, up to the
\* largest integer the checker computes with, and texts that are empty, start
\* with hexadecimal digits, or do not.
NonceSamples == {0, 1, 9, 10, 15, 16, 255, 256, 4095, 65536, 16777215, 2147483647}
Texts == {<<>>, <<"a", "0">>, <<"x">>}
ShortTexts == {<<"a", "0">>, <<"x">>}

CallBuildPreimage ==
    /\ call.fn = "build_preimage"
    /\ call.result = <<>>
    /\ call' = [call EXCEPT !.result =
                   <<build_preimage(call.args[1], call.args[2], call.args[3],
                                    call.args[4], call.args[5], call.args[6],
                                    call.args[7])>>]
    /\ UNCHANGED <<main_vars, params, workers, channel, stop_flag, driver>>

InitPreimage ==
    /\ MainIdle
    /\ PoolIdle
    /\ \E nonce \in NonceSamples, address \in Texts, challenge_id \in ShortTexts,
          difficulty \in ShortTexts, no_pre_mine \in ShortTexts,
          latest_submission \in ShortTexts, no_pre_mine_hour \in Texts :
          call = [fn |-> "build_preimage",
                  args |-> <<nonce, address, challenge_id, difficulty, no_pre_mine,
                             latest_submission, no_pre_mine_hour>>,
                  result |-> <<>>]

NextPreimage == CallBuildPreimage

SpecPreimage == InitPreimage /\ [][NextPreimage]_vars

(***************************************************************************)
(* hash_structure_good (src/src/lib.rs).  A hash is a sequence of bytes;   *)
(* the digest's 64 bytes are reduced to HashLen.                           *)
(***************************************************************************)
HashLen == 2

ByteSamples == {0, 1, 2, 3, 4, 7, 8, 15, 16, 31, 32, 63, 64, 85, 127, 128, 170, 255}

\* a & b on unsigned integers.
RECURSIVE bit_and(_, _)
bit_and(a, b) ==
    IF a = 0 \/ b = 0 THEN 0
    ELSE (a % 2) * (b % 2) + 2 * bit_and(a \div 2, b \div 2)

\* x << n on u8: the bits shifted out of the byte are lost.
shl_u8(x, n) == (x * (2 ^ n)) % 256

\* Faulty variant of high_bits_mask: shifts by the number of bits to check.
high_bits_mask_low(remaining_bits) == shl_u8(255, remaining_bits)

\* 0xFF << (8 - remaining_bits)
high_bits_mask(remaining_bits) == shl_u8(255, 8 - remaining_bits)

hash_structure_good(hash, zero_bits) ==
    LET full_bytes == zero_bits \div 8
        remaining_bits == zero_bits % 8
    IN  IF \/ Len(hash) < full_bytes
           \/ \E i \in 1..full_bytes : hash[i] # 0
        THEN FALSE
        ELSE IF remaining_bits = 0 THEN TRUE
        ELSE IF Len(hash) > full_bytes
             THEN bit_and(hash[full_bytes + 1], high_bits_mask(remaining_bits)) = 0
             ELSE FALSE

CallHashStructureGood ==
    /\ call.fn = "hash_structure_good"
    /\ call.result = <<>>
    /\ call' = [call EXCEPT !.result =
                   <<hash_structure_good(call.args[1], call.args[2])>>]
    /\ UNCHANGED <<main_vars, params, workers, channel, stop_flag, driver>>

InitDifficulty ==
    /\ MainIdle
    /\ PoolIdle
    /\ \E hash \in [1..HashLen -> ByteSamples], zero_bits \in 0..(8 * HashLen) :
          call = [fn |-> "hash_structure_good", args |-> <<hash, zero_bits>>,
                  result |-> <<>>]

NextDifficulty == CallHashStructureGood

SpecDifficulty == InitDifficulty /\ [][NextDifficulty]_vars

(***************************************************************************)
(* Persistence::set / Persistence::get at the level of bytes               *)
(* (src/src/persistence.rs).  A string is a sequence of code points up to  *)
(* U+FFFF, the store maps byte strings to byte strings.  last_save keeps,  *)
(* for every key, the values of its successful set calls in order.         *)
(***************************************************************************)
MaxSets == 2

\* str::as_bytes: the UTF-8 encoding of a string.
RECURSIVE as_bytes(_)
as_bytes(str) ==
    IF str = <<>> THEN <<>>
    ELSE LET cp == Head(str)
             enc == IF cp < 128 THEN <<cp>>
                    ELSE IF cp < 2048
                    THEN <<192 + (cp \div 64), 128 + (cp % 64)>>
                    ELSE <<224 + (cp \div 4096), 128 + ((cp \div 64) % 64),
                           128 + (cp % 64)>>
         IN  enc \o as_bytes(Tail(str))

is_continuation(bytes, i) == i <= Len(bytes) /\ bytes[i] >= 128 /\ bytes[i] < 192

\* String::from_utf8_lossy: decodes UTF-8, an invalid sequence becomes U+FFFD.
RECURSIVE from_utf8_lossy(_)
from_utf8_lossy(bytes) ==
    IF bytes = <<>> THEN <<>>
    ELSE LET b == bytes[1]
             rest(n) == SubSeq(bytes, n + 1, Len(bytes))
             cp3 == (b - 224) * 4096 + (bytes[2] - 128) * 64 + (bytes[3] - 128)
         IN  IF b < 128 THEN <<b>> \o from_utf8_lossy(rest(1))
             ELSE IF b >= 194 /\ b < 224 /\ is_continuation(bytes, 2)
             THEN <<(b - 192) * 64 + (bytes[2] - 128)>> \o from_utf8_lossy(rest(2))
             ELSE IF b >= 224 /\ b < 240 /\ is_continuation(bytes, 2)
             THEN IF /\ is_continuation(bytes, 3)
                     /\ cp3 >= 2048
                     /\ ~(cp3 >= 55296 /\ cp3 < 57344)
                  THEN <<cp3>> \o from_utf8_lossy(rest(3))
                  ELSE <<65533>> \o from_utf8_lossy(rest(2))
             ELSE <<65533>> \o from_utf8_lossy(rest(1))

\* Faulty variant of sled_insert: an existing key keeps its value.
sled_insert_if_absent(d, key_bytes, value_bytes) ==
    IF key_bytes \in DOMAIN d THEN d
    ELSE [k \in (DOMAIN d) \cup {key_bytes} |->
             IF k = key_bytes THEN value_bytes ELSE d[k]]

\* sled::Db::insert and sled::Db::get.
sled_insert(d, key_bytes, value_bytes) ==
    [k \in (DOMAIN d) \cup {key_bytes} |-> IF k = key_bytes THEN value_bytes ELSE d[k]]

sled_get(d, key_bytes) ==
    IF key_bytes \in DOMAIN d THEN [some |-> TRUE, value |-> d[key_bytes]]
    ELSE [some |-> FALSE]

\* Persistence::set: the store after an Ok(()).
set(d, key, value) == sled_insert(d, as_bytes(key), as_bytes(value))

\* Persistence::get: the Option<String> of an Ok(..).
get(d, key) ==
    LET found == sled_get(d, as_bytes(key))
    IN  IF found.some
        THEN [some |-> TRUE, value |-> from_utf8_lossy(found.value)]
        ELSE [some |-> FALSE]

StoreKeys == {<<107>>, <<107, 233>>, <<8364>>}
StoreValues == {<<>>, <<49, 48, 48>>, <<233, 8364, 50>>}

sets_of(key) == IF key \in DOMAIN last_save THEN last_save[key] ELSE <<>>

coordination_vars == <<cli, now, manager_rx, submitter_rx, ws_rx, response_rx,
                       current_challenge, current_stop_signal, mgr, pools, tasks,
                       accepted, sw_running, flushed, http, poller, ws_client, env, attempted, sweeps>>

CallSet(key, value) ==
    /\ Len(sets_of(key)) < MaxSets
    /\ \E ok \in BOOLEAN :
          IF ok
          THEN /\ db' = set(db, key, value)
               /\ last_save' = Persistence_set(last_save, key,
                                               Append(sets_of(key), value))
               /\ call' = [fn |-> "set", args |-> <<key, value>>, result |-> <<"Ok">>]
          ELSE /\ call' = [fn |-> "set", args |-> <<key, value>>, result |-> <<"Err">>]
               /\ UNCHANGED <<db, last_save>>
    /\ UNCHANGED <<coordination_vars, params, workers, channel, stop_flag, driver>>

CallGet(key) ==
    /\ \E ok \in BOOLEAN :
          call' = [fn |-> "get", args |-> <<key>>,
                   result |-> IF ok THEN <<"Ok", get(db, key)>> ELSE <<"Err">>]
    /\ UNCHANGED <<db, last_save, coordination_vars, params, workers, channel,
                   stop_flag, driver>>

InitPersistence ==
    /\ MainIdle
    /\ LibIdle

NextPersistence ==
    \/ \E key \in StoreKeys, value \in StoreValues : CallSet(key, value)
    \/ \E key \in StoreKeys : CallGet(key)

SpecPersistence == InitPersistence /\ [][NextPersistence]_vars

(***************************************************************************)
(* The State Worker's channel closed under a running manager: the store    *)
(* cannot be opened, run_state_worker returns before its command loop and  *)
(* the receiver is dropped with every command queued in it.                *)
(***************************************************************************)
SUBMITTER_SEND_FAIL == "FATAL: Submitter channel closed."
SHUTDOWN_RECEIVED == "Manager received Shutdown command."

\* Faulty variant of after_cycle_error: a closed channel is logged like any error.
after_cycle_error_never_fatal(e) == IF e = SHUTDOWN_RECEIVED THEN "exited" ELSE "recv"

\* The loop's handling of a cycle's Err: Ok(()) on the Shutdown sentinel,
\* Err(e) on a closed State Worker channel, otherwise log and next command.
after_cycle_error(e) ==
    IF e = SHUTDOWN_RECEIVED THEN "exited"
    ELSE IF e = SUBMITTER_SEND_FAIL THEN "failed"
    ELSE "recv"

\* Persistence::open fails while the first command is still in the queue.
SwOpenFails ==
    /\ sw_running
    /\ submitter_rx # <<>>
    /\ Head(submitter_rx) = SaveState(SLED_KEY_MINING_MODE, cli.mode)
    /\ sw_running' = FALSE
    /\ submitter_rx' = <<>>
    /\ UNCHANGED <<lib_vars, cli, now, db, manager_rx, ws_rx, response_rx, current_challenge,
                   current_stop_signal, mgr, pools, tasks, accepted, flushed, http, poller, ws_client,
                   env, attempted, sweeps, last_save>>

\* NewChallenge on a closed channel: a duplicate is dropped before any send;
\* otherwise the first SaveState send fails, before current_challenge is set.
MgrNewChallengeClosed ==
    /\ ~sw_running
    /\ mgr_recv("NewChallenge")
    /\ manager_rx' = recv(manager_rx).rest
    /\ mgr' = IF is_duplicate(current_challenge, recv(manager_rx).command.challenge)
              THEN mgr
              ELSE [mgr EXCEPT !.pc = after_cycle_error(SUBMITTER_SEND_FAIL)]
    /\ UNCHANGED <<lib_vars, cli, now, db, submitter_rx, ws_rx, response_rx, current_challenge,
                   current_stop_signal, pools, tasks, accepted, sw_running, flushed, http, poller, ws_client,
                   env, attempted, sweeps, last_save>>

\* SolutionFound on a closed channel: the miner is stopped, then the
\* SubmitSolution send fails.
MgrSolutionFoundClosed ==
    /\ ~sw_running
    /\ mgr_recv("SolutionFound")
    /\ manager_rx' = recv(manager_rx).rest
    /\ pools' = stop_current_miner(pools, current_stop_signal)
    /\ current_stop_signal' = None
    /\ mgr' = [mgr EXCEPT !.pc = after_cycle_error(SUBMITTER_SEND_FAIL)]
    /\ UNCHANGED <<lib_vars, cli, now, db, submitter_rx, ws_rx, response_rx, current_challenge,
                   tasks, accepted, sw_running, flushed, http, poller, ws_client, env, attempted, sweeps, last_save>>

\* Shutdown on a closed channel: the miner is stopped, then the Shutdown send
\* fails and its error replaces the Shutdown sentinel.
MgrShutdownClosed ==
    /\ ~sw_running
    /\ mgr_recv("Shutdown")
    /\ manager_rx' = recv(manager_rx).rest
    /\ pools' = stop_current_miner(pools, current_stop_signal)
    /\ current_stop_signal' = None
    /\ mgr' = [mgr EXCEPT !.pc = after_cycle_error(SUBMITTER_SEND_FAIL)]
    /\ UNCHANGED <<lib_vars, cli, now, db, submitter_rx, ws_rx, response_rx, current_challenge,
                   tasks, accepted, sw_running, flushed, http, poller, ws_client, env, attempted, sweeps, last_save>>

\* A sweep request on a closed channel: the forwarding send fails.
MgrSweepPendingSolutionsClosed ==
    /\ ~sw_running
    /\ mgr_recv("SweepPendingSolutions")
    /\ manager_rx' = recv(manager_rx).rest
    /\ mgr' = [mgr EXCEPT !.pc = after_cycle_error(SUBMITTER_SEND_FAIL)]
    /\ UNCHANGED <<lib_vars, cli, now, db, submitter_rx, ws_rx, response_rx, current_challenge,
                   current_stop_signal, pools, tasks, accepted, sw_running, flushed, http, poller, ws_client,
                   env, attempted, sweeps, last_save>>

\* The manager waits in sync_get_state and the GetState was dropped with the
\* receiver: recv fails, start_mining falls back to the starting index, the
\* receipt check fails too and ends the skip loop, and the SaveState send of
\* the cursor fails.
MgrReplyLost ==
    /\ ~sw_running
    /\ mgr.pc \in {"sm_index", "sm_receipt", "sf_index"}
    /\ response_rx = <<>>
    /\ mgr' = [mgr_idle EXCEPT !.pc = after_cycle_error(SUBMITTER_SEND_FAIL)]
    /\ UNCHANGED <<lib_vars, cli, now, db, manager_rx, submitter_rx, ws_rx, response_rx,
                   current_challenge, current_stop_signal, pools, tasks, accepted,
                   sw_running, flushed, http, poller, ws_client, env, attempted, sweeps, last_save>>

\* The threads that never send to the State Worker.
OtherThreadStep ==
    \/ \E p \in DOMAIN pools, nonce \in Nonces : PoolFound(p, nonce)
    \/ \E challenge_id \in ChallengeIds : SourceNewChallenge(challenge_id)
    \/ RequestSweep
    \/ RequestShutdown
    \/ Tick

NextChannel ==
    \/ sw_running /\ Next
    \/ ~sw_running /\ OtherThreadStep
    \/ SwOpenFails
    \/ MgrNewChallengeClosed
    \/ MgrSolutionFoundClosed
    \/ MgrShutdownClosed
    \/ MgrSweepPendingSolutionsClosed
    \/ MgrReplyLost

SpecChannel == Init /\ [][NextChannel]_vars

(***************************************************************************)
(* A run with a donation target (--donate-to) on an empty store.           *)
(***************************************************************************)
InitDonate ==
    /\ Startup({TRUE})
    /\ db = <<>>

SpecDonate == InitDonate /\ [][Next]_vars

(***************************************************************************)
(* The HTTP poller: run_polling_client, one action per turn of its loop.   *)
(* The manager's channel stays open and nothing is taken off it, so        *)
(* manager_rx holds what the poller has forwarded.                         *)
(***************************************************************************)
MaxPolls == 4          \* turns of the polling loop

\* api::fetch_challenge_status: an error, or a response with its code and,
\* when the code is "active", the challenge.
ChallengeResponses ==
    {[code |-> "active", challenge |-> <<ChallengeData(c)>>] : c \in ChallengeIds}
    \cup {[code |-> code, challenge |-> <<>>] : code \in {"before", "after", "unknown", "Err"}}

\* Faulty variant of is_new_challenge: every active challenge counts as new.
is_new_challenge_always(active_params, current_challenge_id) == TRUE

\* active_params.challenge_id != current_challenge_id
is_new_challenge(active_params, current_challenge_id) ==
    active_params.challenge_id # current_challenge_id

\* One turn of the loop, up to the sleep.
PollerPoll ==
    /\ Len(poller.polls) < MaxPolls
    /\ \E response \in ChallengeResponses :
         LET forward == /\ response.code = "active"
                        /\ is_new_challenge(unwrap(response.challenge),
                                            poller.current_challenge_id)
             poll == [code |-> response.code,
                      challenge_id |-> IF response.code = "active"
                                       THEN unwrap(response.challenge).challenge_id
                                       ELSE NoId,
                      now |-> now,
                      forwarded |-> forward]
         IN  /\ manager_rx' = IF forward
                              THEN Append(manager_rx,
                                          NewChallenge(unwrap(response.challenge)))
                              ELSE manager_rx
             /\ poller' = [current_challenge_id |->
                               IF forward
                               THEN unwrap(response.challenge).challenge_id
                               ELSE IF response.code \in {"before", "after"}
                               THEN NoId
                               ELSE poller.current_challenge_id,
                           polls |-> Append(poller.polls, poll)]
    /\ http' = http \cup {<<"poller", "fetch_challenge_status">>}
    /\ UNCHANGED <<lib_vars, cli, now, db, submitter_rx, ws_rx, response_rx,
                   current_challenge, current_stop_signal, mgr, pools, tasks,
                   accepted, sw_running, flushed, ws_client, env, attempted, sweeps,
                   last_save>>

InitPoller ==
    /\ MainIdle
    /\ LibIdle

NextPoller ==
    \/ PollerPoll
    \/ Tick

SpecPoller == InitPoller /\ [][NextPoller]_vars

(***************************************************************************)
(* Push-server mode with the client's connection: start_server accepts one *)
(* client at a time, asks for a sweep when it connects, and takes the      *)
(* outbound solutions off its channel whether a client is connected or     *)
(* not.  The manager and the State Worker are scheduled fairly, and so is  *)
(* the server's loop; when a client connects or leaves is up to the client.*)
(***************************************************************************)
\* accept(stream) succeeds: the server asks the manager for a sweep and
\* enters its inner loop.
ClientConnects ==
    /\ ~ws_client.connected
    /\ env.sweeps > 0
    /\ Len(manager_rx) < MaxQueue
    /\ env' = [env EXCEPT !.sweeps = env.sweeps - 1]
    /\ manager_rx' = Append(manager_rx, SweepPendingSolutions)
    /\ ws_client' = [connected |-> TRUE, received |-> <<>>]
    /\ UNCHANGED <<lib_vars, cli, now, db, submitter_rx, ws_rx, response_rx, current_challenge,
                   current_stop_signal, mgr, pools, tasks, accepted, sw_running, flushed,
                   http, poller, attempted, sweeps, last_save>>

\* websocket.read() fails: the inner loop ends and the server waits for the
\* next connection.
ClientDisconnects ==
    /\ ws_client.connected
    /\ ws_client' = [ws_client EXCEPT !.connected = FALSE]
    /\ UNCHANGED <<lib_vars, cli, now, db, manager_rx, submitter_rx, ws_rx, response_rx,
                   current_challenge, current_stop_signal, mgr, pools, tasks, accepted,
                   sw_running, flushed, http, poller, env, attempted, sweeps, last_save>>

\* Faulty variant of ws_deliver: the solution taken off the channel is dropped
\* also when a client is connected.
ws_deliver_never(client, solution) == client

\* The inner loop's try_recv sends the solution to the client
\* (send_solution_to_client); check_for_pending_solutions_on_disconnect, with
\* no client, only logs it.
ws_deliver(client, solution) ==
    IF client.connected
    THEN [client EXCEPT !.received = Append(client.received, solution)]
    ELSE client

\* solution_rx.try_recv() returns a solution, in the inner loop or while the
\* server waits for a connection.
WsServerTryRecv ==
    /\ ws_rx # <<>>
    /\ ws_rx' = Tail(ws_rx)
    /\ ws_client' = ws_deliver(ws_client, Head(ws_rx))
    /\ UNCHANGED <<lib_vars, cli, now, db, manager_rx, submitter_rx, response_rx,
                   current_challenge, current_stop_signal, mgr, pools, tasks, accepted,
                   sw_running, flushed, http, poller, env, attempted, sweeps, last_save>>

InitPush ==
    /\ Startup({FALSE})
    /\ cli.websocket
    /\ cli.mode = "persistent"
    /\ db = <<>>
    /\ env.shutdowns = 0

NextPush ==
    \/ StateWorkerStep
    \/ ManagerStep
    \/ WsServerTryRecv
    \/ ClientConnects
    \/ ClientDisconnects
    \/ \E p \in DOMAIN pools, nonce \in Nonces : PoolFound(p, nonce)
    \/ \E challenge_id \in ChallengeIds : SourceNewChallenge(challenge_id)
    \/ Tick

SpecPush ==
    /\ InitPush
    /\ [][NextPush]_vars
    /\ WF_vars(StateWorkerStep)
    /\ WF_vars(ManagerStep)
    /\ WF_vars(WsServerTryRecv)

(***************************************************************************)
(* The manager's synchronous reads (sync_get_state) in mnemonic mode, with *)
(* both threads scheduled: the State Worker's loop and the manager's       *)
(* blocked recv on the reply channel each run when they can.               *)
(***************************************************************************)
InitSync ==
    /\ Init
    /\ cli.mode = "mnemonic"
    /\ ~cli.websocket

\* One turn of the State Worker's command loop.
StateWorkerLoop ==
    \/ SwSaveState
    \/ SwGetState
    \/ SwSubmitSolution
    \/ SwSweepPendingSolutions
    \/ SwShutdown

\* response_rx.recv() in sync_get_state returns and the manager goes on.
ManagerReads ==
    \/ MgrStartMiningIndex
    \/ MgrStartMiningReceipt
    \/ MgrSolutionFoundIndex

\* The threads of an HTTP-mode run; the clock plays no part in the reads.
NextSync ==
    \/ StateWorkerLoop
    \/ \E t \in 1..MaxPools : TaskStep(t)
    \/ MgrNewChallenge
    \/ ManagerReads
    \/ MgrSolutionFound
    \/ MgrShutdown
    \/ MgrSweepPendingSolutions
    \/ \E p \in DOMAIN pools, nonce \in Nonces : PoolFound(p, nonce)
    \/ \E challenge_id \in ChallengeIds : SourceNewChallenge(challenge_id)
    \/ RequestSweep
    \/ RequestShutdown

SpecSync ==
    /\ InitSync
    /\ [][NextSync]_vars
    /\ WF_vars(StateWorkerLoop)
    /\ WF_vars(ManagerReads)

(***************************************************************************)
(* Properties.                                                             *)
(***************************************************************************)
\* C1: the first submission attempt for a solution (the HTTP request of its
\* submission thread, or the message put on the push server's channel) is
\* made only with the solution's pending record in the store; in particular
\* a SubmitSolution whose pending write failed leads to no attempt.
C1_PendingBeforeAttempt ==
    [][\A s \in attempted' \ attempted :
          /\ get_sled_pending_key(s) \in DOMAIN db'
          /\ db'[get_sled_pending_key(s)] = s]_vars

\* A solution a pool found has been submitted by its thread.
C1_Witness ==
    \E t \in DOMAIN tasks, p \in DOMAIN pools :
        /\ tasks[t].solution \in attempted
        /\ pools[p].found
        /\ tasks[t].solution.address = pools[p].address

\* C3: at most one worker pool has its stop flag unset; so when the manager
\* spawns a pool, the flags of all pools spawned before it are set.
C3_AtMostOneActivePool ==
    Cardinality({p \in DOMAIN pools : ~pools[p].stop}) <= 1

\* A second pool is running after the first was stopped.
C3_Witness ==
    /\ Len(pools) >= 2
    /\ pools[1].stop
    /\ ~pools[Len(pools)].stop

\* C4: the manager's handling of a NewChallenge with the id of
\* current_challenge sends nothing to the State Worker and leaves
\* current_challenge, the current stop flag and all pools as they are.
C4_DuplicateChangesNothing ==
    [][(/\ mgr.pc = "recv"
        /\ manager_rx # <<>>
        /\ Head(manager_rx).type = "NewChallenge"
        /\ current_challenge # <<>>
        /\ current_challenge[1].challenge_id = Head(manager_rx).challenge.challenge_id
        /\ manager_rx' = Tail(manager_rx))
       => UNCHANGED <<submitter_rx, current_challenge, current_stop_signal,
                      pools, mgr, db>>]_vars

\* The manager has a pool running on a challenge and the next command is a
\* NewChallenge for the same challenge.
C4_Witness ==
    /\ mgr.pc = "recv"
    /\ manager_rx # <<>>
    /\ Head(manager_rx).type = "NewChallenge"
    /\ current_challenge # <<>>
    /\ current_challenge[1].challenge_id = Head(manager_rx).challenge.challenge_id
    /\ current_stop_signal # None

\* C2: a worker pool is spawned for an address on a challenge only while no
\* receipt for that address and challenge is in the store.
C2_NoPoolAfterReceipt ==
    [][Len(pools') > Len(pools) =>
          get_sled_receipt_key(pools'[Len(pools')].address,
                               pools'[Len(pools')].challenge_id) \notin DOMAIN db]_vars

\* C5: a pending record that is in the store while its challenge's deadline
\* has not passed leads to a submission attempt for it (or to the deadline
\* passing first).
C5_PendingIsResubmitted ==
    \A s \in RestartPending :
        (get_sled_pending_key(s) \in DOMAIN db
         /\ ~(LatestSubmission(s.challenge_id) < now))
        ~> (s \in attempted \/ LatestSubmission(s.challenge_id) < now)

\* C6: a submission thread that has ended has its receipt stored, or ended
\* with a permanent failure, or ended after the challenge's deadline.
C6_NeverAbandoned ==
    \A t \in DOMAIN tasks :
        tasks[t].pc = "done" =>
            \/ get_sled_receipt_key(tasks[t].solution.address,
                                    tasks[t].solution.challenge_id) \in DOMAIN db
            \/ tasks[t].result \in {"PERMANENT_ERROR: Solution consumed by network",
                                    "PERMANENT_ERROR: Deadline passed"}
            \/ LatestSubmission(tasks[t].solution.challenge_id) < now

\* C7: when a submission thread whose solution the coordinator accepted
\* ends, the receipt key holds the returned receipt and the pending key is
\* absent.
C7_ReceiptReplacesPending ==
    [][\A t \in DOMAIN tasks :
          (tasks[t].pc = "remove_pending" /\ tasks[t].result = "Ok"
           /\ tasks'[t].pc = "done")
          => LET solution == tasks[t].solution
                 receipt_key == get_sled_receipt_key(solution.address,
                                                     solution.challenge_id)
             IN  /\ receipt_key \in DOMAIN db'
                 /\ db'[receipt_key] = crypto_receipt(solution)
                 /\ get_sled_pending_key(solution) \notin DOMAIN db']_vars

\* The pending entries of a store, and how often a solution is in a sequence.
PendingKeys(d) == {k \in DOMAIN d : k[1] = "pending"}
Occurrences(seq, x) == Cardinality({i \in DOMAIN seq : seq[i] = x})

\* The challenge of a pending entry is expired for a sweep when the store's
\* challenge record has its latest_submission before the sweep's clock.
RecordExpired(sweep, k) ==
    /\ challenge_key(k[3]) \in DOMAIN sweep.before
    /\ sweep.before[challenge_key(k[3])].latest_submission < sweep.now

\* The challenge of a pending entry is not expired: its deadline is not
\* before the sweep's clock, whether or not the store has its record.
NotExpired(sweep, k) ==
    /\ ~(LatestSubmission(k[3]) < sweep.now)
    /\ challenge_key(k[3]) \in DOMAIN sweep.before
           => ~(sweep.before[challenge_key(k[3])].latest_submission < sweep.now)

\* C8: in every sweep, a pending entry with an expired challenge record is
\* deleted and not forwarded; a pending entry whose challenge is not expired
\* is kept and forwarded exactly once.
C8_SweepByDeadline ==
    \A i \in DOMAIN sweeps :
        \A k \in PendingKeys(sweeps[i].before) :
            /\ RecordExpired(sweeps[i], k) =>
                  /\ k \notin DOMAIN sweeps[i].after
                  /\ Occurrences(sweeps[i].sent, sweeps[i].before[k]) = 0
            /\ NotExpired(sweeps[i], k) =>
                  /\ k \in DOMAIN sweeps[i].after
                  /\ sweeps[i].after[k] = sweeps[i].before[k]
                  /\ Occurrences(sweeps[i].sent, sweeps[i].before[k]) = 1

\* One sweep deleted an expired entry and forwarded a live one.
C8_Witness ==
    \E i \in DOMAIN sweeps :
        \E k1, k2 \in PendingKeys(sweeps[i].before) :
            /\ RecordExpired(sweeps[i], k1)
            /\ NotExpired(sweeps[i], k2)
            /\ k2 \in DOMAIN sweeps[i].after

\* Two sweeps in a row with nothing in between: the second starts on the
\* store the first left, at the same clock.
InARow(i) ==
    /\ sweeps[i + 1].before = sweeps[i].after
    /\ sweeps[i + 1].now = sweeps[i].now

\* C9: the second of two sweeps in a row leaves the same pending entries as
\* the first and forwards the same solutions.
C9_SweepIdempotent ==
    \A i \in 1..(Len(sweeps) - 1) :
        InARow(i) =>
            /\ PendingKeys(sweeps[i + 1].after) = PendingKeys(sweeps[i].after)
            /\ sweeps[i + 1].sent = sweeps[i].sent

\* Two sweeps in a row, the first of which deleted one entry and forwarded
\* another.
C9_Witness ==
    \E i \in 1..(Len(sweeps) - 1) :
        /\ InARow(i)
        /\ sweeps[i].sent # <<>>
        /\ sweeps[i].after # sweeps[i].before

\* The key of the GetState the manager is waiting on.
reading ==
    IF mgr.pc = "sm_index" THEN mnemonic_index_key(mgr.challenge[1].challenge_id)
    ELSE IF mgr.pc = "sf_index" THEN mnemonic_index_key(current_challenge[1].challenge_id)
    ELSE get_sled_receipt_key(MnemonicAddress(mgr.current_index),
                              mgr.challenge[1].challenge_id)

\* C10: the answer to a GetState(k) the manager sent after its own
\* SaveState(k, v) is v.
C10_ReadOwnWrite ==
    (mgr.pc \in {"sm_index", "sf_index", "sm_receipt"} /\ response_rx # <<>>
     /\ reading \in DOMAIN last_save)
    => Head(response_rx) = [some |-> TRUE, value |-> last_save[reading]]

\* The manager has the answer to a read of a key it saved before.
C10_Witness ==
    /\ mgr.pc \in {"sm_index", "sf_index", "sm_receipt"}
    /\ response_rx # <<>>
    /\ reading \in DOMAIN last_save
    /\ Head(response_rx) = [some |-> TRUE, value |-> last_save[reading]]

\* C11: the store changes only in steps of the State Worker, that is, in
\* steps that take a command off submitter_rx.
C11_OnlyStateWorkerTouchesStore ==
    [][db' # db => (submitter_rx # <<>> /\ submitter_rx' = Tail(submitter_rx))]_vars

\* The nonces a worker has hashed, and those of the whole pool.
Hashed(t) == {workers[t].hashed[i] : i \in DOMAIN workers[t].hashed}
Attempted == UNION {Hashed(t) : t \in ThreadIds}
NoWrap == \A t \in ThreadIds : ~workers[t].wrapped

\* C12: as long as no worker's nonce has wrapped around, no nonce has been
\* hashed by two different workers of the pool.
C12_DisjointWorkers ==
    NoWrap => \A t1, t2 \in ThreadIds : t1 # t2 => Hashed(t1) \cap Hashed(t2) = {}

\* Two workers have each hashed two nonces and none has wrapped.
C12_Witness ==
    /\ NoWrap
    /\ \E t1, t2 \in ThreadIds :
          t1 # t2 /\ Len(workers[t1].hashed) >= 2 /\ Len(workers[t2].hashed) >= 2

\* The pool has stopped: every worker has returned.
PoolStopped == \A t \in ThreadIds : workers[t].pc = "returned"

\* The highest nonce any worker has reached.
HighestNonce ==
    CHOOSE n \in {workers[t].nonce_value : t \in ThreadIds} :
        \A t \in ThreadIds : workers[t].nonce_value <= n

\* No worker has hashed a nonce twice and no two workers the same nonce.
NoDuplicates ==
    /\ \A t \in ThreadIds : Cardinality(Hashed(t)) = Len(workers[t].hashed)
    /\ \A t1, t2 \in ThreadIds : t1 # t2 => Hashed(t1) \cap Hashed(t2) = {}

\* C13, as stated: when the pool has stopped (no nonce having wrapped), the
\* nonces attempted are without duplicates and are exactly an interval [0, N)
\* (whichever way the highest nonce reached is counted).
C13_AttemptedIsInterval ==
    (PoolStopped /\ NoWrap) =>
        /\ NoDuplicates
        /\ \E N \in 0..NonceModulus : Attempted = 0..(N - 1)

\* C13, amended: as long as no nonce has wrapped, worker t has hashed
\* exactly t, t+T, t+2T, ... up to the last nonce it got to; so the attempted
\* nonces are without duplicates and lie in 0..N, which they need not fill.
C13_AttemptedIsPartitioned ==
    NoWrap =>
        /\ \A t \in ThreadIds : \A i \in DOMAIN workers[t].hashed :
              workers[t].hashed[i] = t + (i - 1) * params.nb_threads
        /\ NoDuplicates
        /\ Attempted \subseteq 0..HighestNonce

\* A pool of several workers has stopped, none wrapped, one worker having
\* hashed two nonces more than another: the attempted nonces have a gap.
C13_Witness ==
    /\ PoolStopped
    /\ NoWrap
    /\ \E t1, t2 \in ThreadIds :
          Len(workers[t1].hashed) >= Len(workers[t2].hashed) + 2
    /\ Attempted # 0..HighestNonce

HexValue(ch) == (CHOOSE i \in DOMAIN HexChars : HexChars[i] = ch) - 1

RECURSIVE ParseHex(_)
ParseHex(str) ==
    IF str = <<>> THEN 0
    ELSE 16 * ParseHex(SubSeq(str, 1, Len(str) - 1)) + HexValue(str[Len(str)])

\* C15: the preimage returned by build_preimage starts with 16 lowercase
\* hexadecimal characters that parse to the nonce, and goes on with address,
\* challenge_id, difficulty, rom key, latest_submission and hour tag.
C15_PreimageLayout ==
    (call.fn = "build_preimage" /\ call.result # <<>>) =>
        LET preimage == call.result[1]
            head == SubSeq(preimage, 1, 16)
        IN  /\ Len(preimage) >= 16
            /\ \A i \in 1..16 : \E j \in DOMAIN HexChars : head[i] = HexChars[j]
            /\ ParseHex(head) = call.args[1]
            /\ SubSeq(preimage, 17, Len(preimage)) =
                   call.args[2] \o call.args[3] \o call.args[4] \o call.args[5]
                       \o call.args[6] \o call.args[7]

\* A preimage was built for a nonce of several hexadecimal digits and an
\* address that starts with hexadecimal digits.
C15_Witness ==
    /\ call.fn = "build_preimage"
    /\ call.result # <<>>
    /\ call.args[1] > 255
    /\ call.args[2] = <<"a", "0">>

\* The number of binary digits of a byte, and the number of zero bits a
\* sequence of bytes starts with.
RECURSIVE BitLength(_)
BitLength(b) == IF b = 0 THEN 0 ELSE 1 + BitLength(b \div 2)

RECURSIVE LeadingZeroBits(_)
LeadingZeroBits(hash) ==
    IF hash = <<>> THEN 0
    ELSE IF hash[1] = 0 THEN 8 + LeadingZeroBits(Tail(hash))
    ELSE 8 - BitLength(hash[1])

\* C16: hash_structure_good(h, k) is true exactly when h starts with at
\* least k zero bits, for every k from 0 to the number of bits of h.
C16_LeadingZeroBits ==
    (call.fn = "hash_structure_good" /\ call.result # <<>>) =>
        (call.result[1] <=> LeadingZeroBits(call.args[1]) >= call.args[2])

\* A hash was accepted on a bit count that ends inside a nonzero byte.
C16_Witness ==
    /\ call.fn = "hash_structure_good"
    /\ call.result = <<TRUE>>
    /\ call.args[2] % 8 # 0
    /\ call.args[2] > 8
    /\ call.args[1][(call.args[2] \div 8) + 1] # 0

\* A hash was rejected on a bit count one above its leading zero bits.
C16_WitnessRejected ==
    /\ call.fn = "hash_structure_good"
    /\ call.result = <<FALSE>>
    /\ call.args[2] = LeadingZeroBits(call.args[1]) + 1

\* The index whose address a pool mines, in mnemonic mode.
MinedIndex(p) == pools[p].address - 1

\* The manager has nothing left to do for any solution reported so far.
SolutionsHandled ==
    /\ mgr.pc # "sf_index"
    /\ \A i \in DOMAIN manager_rx : manager_rx[i].type # "SolutionFound"

\* C17: in mnemonic mode, once the manager has handled the SolutionFound of a
\* pool, the cursor it has persisted for that pool's challenge is past the
\* index the pool mined, so that the next pool mines the next address.
C17_CursorPastMinedIndex ==
    (cli.mode = "mnemonic" /\ SolutionsHandled) =>
        \A p \in DOMAIN pools :
            pools[p].found =>
                LET cursor == Persistence_get(last_save,
                                              mnemonic_index_key(pools[p].challenge_id))
                IN  cursor.some /\ cursor.value >= MinedIndex(p) + 1

\* C18: an Ok get(k) returns the value of the latest successful set(k, v),
\* and None when no set(k, ..) succeeded.
C18_GetReturnsLatestSet ==
    (call.fn = "get" /\ call.result[1] = "Ok") =>
        LET key == call.args[1]
            written == sets_of(key)
        IN  call.result[2] = IF written = <<>> THEN [some |-> FALSE]
                             ELSE [some |-> TRUE, value |-> written[Len(written)]]

\* A get returned the second value of a key whose first value was another
\* one, and both key and value have characters outside ASCII.
C18_Witness ==
    /\ call.fn = "get"
    /\ call.result[1] = "Ok"
    /\ call.result[2].some
    /\ call.args[1] = <<107, 233>>
    /\ Len(sets_of(call.args[1])) = 2
    /\ sets_of(call.args[1])[1] # sets_of(call.args[1])[2]
    /\ call.result[2].value = <<233, 8364, 50>>

\* A get of a key that was never set returned None while other keys are set.
C18_WitnessNone ==
    /\ call.fn = "get"
    /\ call.result[1] = "Ok"
    /\ ~call.result[2].some
    /\ db # <<>>

\* The manager takes a NewChallenge for another challenge than the current
\* one off its queue while the pool of current_stop_signal is running.
SwitchWhileMining ==
    /\ mgr_recv("NewChallenge")
    /\ manager_rx' = recv(manager_rx).rest
    /\ is_some(current_challenge)
    /\ unwrap(current_challenge).challenge_id
           # recv(manager_rx).command.challenge.challenge_id
    /\ current_stop_signal # None
    /\ ~pools[current_stop_signal].stop

\* C20: when the manager has handled such a NewChallenge and is ready to take
\* the next message, the stop flag of the pool that was running is set and a
\* new pool is mining the new challenge.
C20_NewChallengeReplacesPool ==
    [][(SwitchWhileMining /\ mgr'.pc = "recv") =>
          /\ pools'[current_stop_signal].stop
          /\ \E p \in DOMAIN pools' :
                /\ pools'[p].challenge_id
                       = recv(manager_rx).command.challenge.challenge_id
                /\ ~pools'[p].stop]_vars

\* C21: a pool started after a SolutionFound for the same challenge and
\* address hashes no nonce that an earlier pool hashed, and finds no nonce
\* that an earlier pool found.
C21_RespawnedPoolTriesOtherNonces ==
    \A p \in DOMAIN pools :
        /\ pools[p].hashed \cap EndedPool.hashed = {}
        /\ \A i \in DOMAIN driver.found, j \in DOMAIN pools[p].nonces :
              driver.found[i] # pools[p].nonces[j]

\* Thread t has just got this answer from api::submit_solution.
Answered(t, response) ==
    /\ tasks[t].pc = "submit"
    /\ tasks'[t] # tasks[t]
    /\ call' = [fn |-> "submit_solution", args |-> <<t>>, result |-> <<response>>]

receipt_key_of(t) ==
    get_sled_receipt_key(tasks[t].solution.address, tasks[t].solution.challenge_id)

pending_key_of(t) == get_sled_pending_key(tasks[t].solution)

\* Thread t takes the step it is at.
Moves(t) == tasks'[t] # tasks[t]

\* C22: a submission answered 'Solution already submitted' or 'Solution
\* already exists' makes the thread write the solved marker under the receipt
\* key, then delete the pending entry, then end with a permanent error; it
\* makes no attempt after that answer.
C22_ConsumedMarksAndDeletes ==
    [][\A t \in DOMAIN tasks :
          /\ (Answered(t, "Solution already submitted")
                 \/ Answered(t, "Solution already exists"))
                => (tasks'[t].pc = "save_marker" /\ db' = db)
          /\ (tasks[t].pc = "save_marker" /\ Moves(t))
                => /\ receipt_key_of(t) \in DOMAIN db'
                   /\ db'[receipt_key_of(t)].status = "solved_by_network"
                   /\ tasks'[t].pc = "remove_pending"
                   /\ tasks'[t].result = "PERMANENT_ERROR: Solution consumed by network"
                   /\ attempted' = attempted
          /\ (tasks[t].pc = "remove_pending" /\ Moves(t)
                 /\ tasks[t].result = "PERMANENT_ERROR: Solution consumed by network")
                => /\ pending_key_of(t) \notin DOMAIN db'
                   /\ tasks'[t] = [tasks[t] EXCEPT !.pc = "done"]
                   /\ attempted' = attempted
          /\ tasks[t].pc = "done" => tasks'[t] = tasks[t]]_vars

\* A thread has ended on a consumed solution after an earlier failed attempt,
\* with the marker in the store and the pending entry gone.
C22_Witness ==
    \E t \in DOMAIN tasks :
        /\ tasks[t].pc = "done"
        /\ tasks[t].result = "PERMANENT_ERROR: Solution consumed by network"
        /\ attempts_of(tasks[t].solution) = 2
        /\ receipt_key_of(t) \in DOMAIN db
        /\ db[receipt_key_of(t)].status = "solved_by_network"
        /\ pending_key_of(t) \notin DOMAIN db

C24_Other4xxIsPermanent ==
    [][\A t \in DOMAIN tasks :
          (Answered(t, "Status 400") \/ Answered(t, "Status 404"))
             => (tasks'[t].pc = "done" /\ db' = db)]_vars

TransientErrors == {"Status 408", "Status 429", "Status 500", "Network/Client Error"}

\* C25: a thread whose attempts keep failing makes at most seven attempts;
\* each retry raises its backoff, and when it gives up it ends with an error
\* and leaves the store, with its pending entry, as it is.
C25_GivesUpAndLeavesPending ==
    [][\A t \in DOMAIN tasks :
          /\ attempts_of(tasks[t].solution)' <= 7
          /\ (\E e \in TransientErrors : Answered(t, e))
                => \/ /\ tasks'[t].pc = "submit"
                      /\ tasks'[t].backoff.cur > tasks[t].backoff.cur
                      /\ db' = db
                   \/ /\ tasks'[t].pc = "done"
                      /\ tasks'[t].result = "Submission failed after max backoff"
                      /\ attempts_of(tasks[t].solution)' = 7
                      /\ db' = db
                      /\ pending_key_of(t) \in DOMAIN db'
          /\ (tasks[t].pc = "done"
                 /\ tasks[t].result = "Submission failed after max backoff")
                => (tasks'[t] = tasks[t] /\ pending_key_of(t) \in DOMAIN db')]_vars

\* A thread has given up after seven failed attempts, with its pending entry
\* in the store.
C25_Witness ==
    \E t \in DOMAIN tasks :
        /\ tasks[t].pc = "done"
        /\ tasks[t].result = "Submission failed after max backoff"
        /\ attempts_of(tasks[t].solution) = 7
        /\ call.result[1] \in TransientErrors
        /\ pending_key_of(t) \in DOMAIN db

\* C26: the first delay of a Backoff(5, 300, 2), and the first after a reset,
\* is 5 seconds; each further delay is twice the one before, capped at 300,
\* so the delays are 5, 10, 20, 40, 80, 160 and then 300 for as long as there
\* is no reset; no delay is below 5 or above 300.
C26_DelaysDoubleUpToCap ==
    call.fn = "Backoff" =>
        LET done == call.result
        IN  \A i \in DOMAIN done :
                done[i].op = "sleep" =>
                    /\ done[i].secs >= 5 /\ done[i].secs <= 300
                    /\ (i = 1 \/ done[i - 1].op = "reset") => done[i].secs = 5
                    /\ (i > 1 /\ done[i - 1].op = "sleep")
                          => done[i].secs = Min(2 * done[i - 1].secs, 300)
                    /\ (i <= 6 /\ \A j \in 1..i : done[j].op = "sleep")
                          => done[i].secs = 5 * (2 ^ (i - 1))

\* The cap was slept twice in a row, then a reset brought the delay back to 5.
C26_Witness ==
    /\ call.fn = "Backoff"
    /\ \E i \in DOMAIN call.result :
          /\ i > 2
          /\ i + 2 <= Len(call.result)
          /\ call.result[i - 1] = [op |-> "sleep", secs |-> 300]
          /\ call.result[i] = [op |-> "sleep", secs |-> 300]
          /\ call.result[i + 1].op = "reset"
          /\ call.result[i + 2] = [op |-> "sleep", secs |-> 5]

\* In mnemonic mode start_mining spawns a pool in this step.
MnemonicSpawn ==
    /\ cli.mode = "mnemonic"
    /\ mgr.pc = "sm_receipt"
    /\ Len(pools') = Len(pools) + 1

\* The cursor start_mining read for a challenge: the one the manager saved
\* last, or the one an earlier run left in the store.
PersistedCursor(challenge_id) ==
    LET key == mnemonic_index_key(challenge_id)
    IN  IF key \in DOMAIN last_save THEN <<last_save[key]>>
        ELSE IF key \in DOMAIN db THEN <<db[key]>>
        ELSE <<>>

HasReceipt(index, challenge_id) ==
    get_sled_receipt_key(MnemonicAddress(index), challenge_id) \in DOMAIN db

C28_ResumesAtFirstUnsolvedIndex ==
    [][MnemonicSpawn =>
          LET challenge_id == unwrap(mgr.challenge).challenge_id
              j == pools'[Len(pools')].address - 1
          IN  /\ ~HasReceipt(j, challenge_id)
              /\ \A i \in cli.mnemonic_starting_index..(j - 1) :
                    HasReceipt(i, challenge_id)]_vars

\* C29: the manager's Shutdown step leaves no pool with an unset stop flag,
\* puts Shutdown at the end of the State Worker's queue and ends the manager;
\* an ended manager takes no message off its queue.
C29_ShutdownStopsForwardsExits ==
    [][/\ (mgr_recv("Shutdown") /\ manager_rx' = recv(manager_rx).rest)
            => /\ \A p \in DOMAIN pools' : pools'[p].stop
               /\ current_stop_signal' = None
               /\ submitter_rx' = Append(submitter_rx, Shutdown)
               /\ mgr'.pc = "exited"
       /\ mgr.pc = "exited"
            => /\ mgr' = mgr
               /\ Len(manager_rx') >= Len(manager_rx)
               /\ SubSeq(manager_rx', 1, Len(manager_rx)) = manager_rx]_vars

\* The manager has ended on Shutdown while a pool was mining: the pool is
\* stopped, and the solution it reported afterwards stays in the queue.
C29_Witness ==
    /\ mgr.pc = "exited"
    /\ ~sw_running
    /\ \E p \in DOMAIN pools : pools[p].stop /\ pools[p].found
    /\ manager_rx # <<>>
    /\ manager_rx[1].type = "SolutionFound"
    /\ \A k \in DOMAIN db : k[1] # "pending"

\* C30: a State Worker that has left its command loop on Shutdown has
\* flushed the store, whether or not submission threads were still running.
C30_FlushedBeforeExit == ~sw_running => flushed

\* The manager takes a step: it dequeues a command or takes a reply.
ManagerActs ==
    \/ mgr.pc = "recv" /\ manager_rx # <<>> /\ manager_rx' = Tail(manager_rx)
    \/ mgr' # mgr

\* The step ends a start_mining call whose spawn failed, the one error of the
\* model that is not a failed send.
SpawnFailed ==
    /\ sw_running
    /\ ManagerActs
    /\ \/ /\ mgr_recv("NewChallenge")
          /\ ~is_duplicate(current_challenge, recv(manager_rx).command.challenge)
          /\ ~is_mining(current_challenge)
          /\ cli.mode # "mnemonic"
       \/ /\ mgr_recv("SolutionFound")
          /\ cli.mode # "mnemonic"
          /\ is_some(current_challenge)
       \/ /\ mgr.pc = "sm_receipt"
          /\ response_rx # <<>>
          /\ ~Head(response_rx).some
    /\ Len(pools') = Len(pools)

\* The step attempts a send on the closed channel of the State Worker.
SendFailed ==
    /\ ~sw_running
    /\ mgr.pc \notin {"exited", "failed"}
    /\ ManagerActs
    /\ ~(/\ mgr_recv("NewChallenge")
         /\ is_duplicate(current_challenge, recv(manager_rx).command.challenge))

\* C31: a cycle that fails otherwise than by a failed send to the State Worker
\* leaves the manager at the receive of its next command; a cycle in which a
\* send to the State Worker fails ends the manager with an error, and it
\* dequeues nothing afterwards.
C31_OnlyClosedChannelStopsManager ==
    [][/\ SpawnFailed => mgr'.pc = "recv"
       /\ SendFailed => mgr'.pc = "failed"
       /\ mgr.pc = "failed"
            => /\ mgr' = mgr
               /\ Len(manager_rx') >= Len(manager_rx)
               /\ SubSeq(manager_rx', 1, Len(manager_rx)) = manager_rx]_vars

\* The manager went on after a failed spawn (its challenge is set, no pool
\* exists) and has stopped on a later command because the channel is closed.
C31_Witness ==
    /\ mgr.pc = "failed"
    /\ ~sw_running
    /\ is_some(current_challenge)
    /\ pools = <<>>

\* C32: no HTTP request to the coordinator is made by the manager thread.
C32_ManagerMakesNoHttpRequest == \A request \in http : request[1] # "manager"

\* C38: with --websocket no HTTP request is made at all, by the manager, by
\* the State Worker or by a submission thread it would spawn.
C38_NoHttpInPushServerMode == cli.websocket => http = {}

\* The polls in which the poller forwarded a challenge.
Forwards == {i \in DOMAIN poller.polls : poller.polls[i].forwarded}

\* C33: the poller forwards only on an "active" response; what it has sent to
\* the manager are the challenges of those polls in order; and between two
\* consecutive forwards of the same id a "before" or "after" response cleared
\* the tracked id.
C33_ForwardsOnlyNewActiveIds ==
    /\ \A i \in Forwards : poller.polls[i].code = "active"
    /\ Len(manager_rx) = Cardinality(Forwards)
    /\ \A i \in Forwards :
         manager_rx[Cardinality({j \in Forwards : j <= i})] =
             NewChallenge(ChallengeData(poller.polls[i].challenge_id))
    /\ \A i, j \in Forwards :
         (/\ i < j
          /\ poller.polls[i].challenge_id = poller.polls[j].challenge_id
          /\ \A k \in Forwards : ~(i < k /\ k < j))
         => \E k \in DOMAIN poller.polls :
                i < k /\ k < j /\ poller.polls[k].code \in {"before", "after"}

\* An id is forwarded, not forwarded again while it stays active, and
\* forwarded again after an "after" response.
C33_Witness ==
    /\ Len(poller.polls) = 4
    /\ poller.polls[1].code = "active" /\ poller.polls[1].forwarded
    /\ poller.polls[2].code = "active" /\ ~poller.polls[2].forwarded
    /\ poller.polls[3].code = "after"
    /\ poller.polls[4].forwarded
    /\ poller.polls[4].challenge_id = poller.polls[1].challenge_id

\* C34: a challenge the poller forwards has its latest_submission not in the
\* past by the clock of the poll.
C34_PollerChecksDeadline ==
    \A i \in Forwards :
        check_submission_deadline(ChallengeData(poller.polls[i].challenge_id),
                                  poller.polls[i].now)

\* The solutions the model can hold as pending in push-server mode.
PushSolutions ==
    {PendingSolution(PersistentAddress, c, n) : c \in ChallengeIds, n \in Nonces}

IsCoordinatorReceipt(d, k) ==
    /\ k \in DOMAIN d
    /\ k[1] = "receipt"
    /\ d[k].status = "crypto_receipt"

\* C36: a receipt issued by the coordinator, once stored under
\* receipt:<address>:<challenge_id>, is never replaced or removed.
C36_ReceiptIsNeverReplaced ==
    [][\A k \in DOMAIN db :
          IsCoordinatorReceipt(db, k) => (k \in DOMAIN db' /\ db'[k] = db[k])]_vars

\* C37: when the manager waits for its next command, current_challenge is
\* Some exactly when current_stop_signal is Some.
C37_ChallengeSetIffPoolHeld ==
    mgr.pc = "recv" => (is_some(current_challenge) <=> current_stop_signal # None)

\* Submission thread t ends in this step by deleting the pending entry under
\* key k, after the coordinator accepted its solution or reported it consumed.
RemovedAfterAnswer(t, k) ==
    /\ tasks[t].pc = "remove_pending"
    /\ tasks'[t].pc = "done"
    /\ get_sled_pending_key(tasks[t].solution) = k
    /\ tasks[t].result \in {"Ok", "PERMANENT_ERROR: Solution consumed by network"}

ManagerWaits == mgr.pc \in {"sm_index", "sm_receipt", "sf_index"}

\* The GetState commands the State Worker has not handled yet.
UnansweredGetStates == Len(SelectSeq(submitter_rx, LAMBDA c : c.type = "GetState"))

\* While the State Worker runs, a waiting manager has one GetState or its one
\* reply in flight, and a manager that does not wait has neither.
OneReplyPerGetState ==
    sw_running => UnansweredGetStates + Len(response_rx) = (IF ManagerWaits THEN 1 ELSE 0)

\* The State Worker's loop can take its next command whenever there is one.
StateWorkerNeverWaits ==
    (sw_running /\ submitter_rx # <<>>) => ENABLED StateWorkerLoop

\* C40: every GetState sent while the State Worker runs gets exactly one
\* reply, the State Worker never waits on the manager, and a manager blocked
\* in its synchronous read gets back to waiting for its next command.
C40_SyncReadIsAnswered ==
    /\ [](OneReplyPerGetState /\ StateWorkerNeverWaits)
    /\ (UnansweredGetStates = 1) ~> (UnansweredGetStates = 0 /\ Len(response_rx) = 1)
    /\ ManagerWaits ~> (mgr.pc = "recv")

\* The skip loop's read of a receipt key has been answered with a stored
\* receipt, and the manager has not taken the reply yet.
C40_Witness ==
    /\ sw_running
    /\ mgr.pc = "sm_receipt"
    /\ UnansweredGetStates = 0
    /\ Len(response_rx) = 1
    /\ Head(response_rx).some

====
